---- MODULE Spec2Model ----
(***************************************************************************)
(* promptier: the render pipeline with provenance tracking                 *)
(* (packages/core: Prompt, Section, SourceMap, formatters) and the lint    *)
(* engine (packages/lint: Linter, heuristic rules, semantic parser).       *)
(*                                                                         *)
(* Strings.  A JavaScript string is modelled as a finite sequence of       *)
(* lexemes.  A lexeme is a fixed run of characters ("<!--", "identity",    *)
(* "\n", ...); CharLen gives its length in characters, so offsets and      *)
(* lengths are character offsets and lengths as in the code.  Substring    *)
(* search works on whole lexemes: an occurrence starts and ends at a       *)
(* lexeme boundary.                                                        *)
(***************************************************************************)
EXTENDS Integers, Sequences, FiniteSets, TLC

VARIABLES
    \* ---- Prompt.render() calls on one Prompt (part_006) ----
    prompt,        \* the Prompt: name, model, sections, options
    context,       \* the RenderContext passed to render
    enriched,      \* the context enriched at the start of the call
    rpc,           \* position of the render call
    resolved,      \* resolveSections: the RenderedSection list built so far
    invoked,       \* generator calls of this render call, in invocation
                   \* order: generator, declaration index, outcome
    compiled,      \* what the call settled with: a CompiledPrompt or an error
    previous,      \* what the previous call on this Prompt settled with
    renders,       \* number of render calls started
    now,           \* the clock read by `new Date()`
    \* ---- one Linter (packages/lint/src/linter.ts) ----
    rules,         \* this.rules: the registered rules, in Map insertion order
    ruleConfig,    \* this.ruleConfig: rule id -> RuleConfig
    llmConfig,     \* the `llm` entry of the LinterConfig given to the constructor
    ops,           \* number of addRule/configureRule/disableRule calls made
    lastAdded,     \* history, kept by SpecRegistry only: the addRule call
                   \* made last with the severity it found configured for
                   \* the id, while no configureRule or disableRule call
                   \* has followed it
    \* ---- Linter.lint() calls on that Linter ----
    lpc,           \* position of the lint call
    linted,        \* the Prompt passed to lint
    lintContext,   \* the LintContext built from the render (lines 293-305)
    ignoredRules,  \* parseIgnoredRules(text)
    cursor,        \* position of the loop over this.rules
    allWarnings,   \* the findings aggregated so far
    checks,        \* the rule checks invoked so far, in order, with outcome
    rulesChecked,  \* the local counter of lint
    llmCalls,      \* the local counter of lint
    generateCalls, \* calls of LlmClient.generate made during the run
    lintResult,    \* what the call settled with: a LintResult or an error
    baseline,      \* the first lint call that resolved on the Linter as
                   \* constructed: its prompt, its LintResult and the
                   \* registry it left, and whether other prompts were
                   \* linted since; dropped when the registry is changed
    \* ---- one parseSemanticResponse() call (rules/semantic/parser.ts) ----
    raw,           \* the argument: the text answered by the model
    ppc,           \* position of the call
    attempts,      \* the JSON.parse calls of tryParse, in order, with outcome
    parsedWarnings, \* what the call returned
    \* ---- one SourceMap S and a copy made through JSON (source-map.ts) ----
    original,      \* a SourceMap S: prompt, renderedText, mappings
    restored,      \* T = SourceMap.fromJSON(S.toJSON()), while S is as it
                   \* was when T was made
    \* ---- one PromptBuilder and the Prompts made from it (part_006) ----
    arrays,        \* the section arrays on the heap, by reference
    optionObjects, \* the PromptOptions objects on the heap, by reference
    builder,       \* the PromptBuilder: _name, _model and the references
                   \* _sections and _options
    built,         \* the Prompts made so far: name, model, the references
                   \* sections and options, how it was made, and the
                   \* section list it was made with
    observed       \* what the last operation returned, when it was a
                   \* toConfig, render or lint call on one of the Prompts

renderVars ==
    <<prompt, context, enriched, rpc, resolved, invoked, compiled, previous,
      renders, now>>

linterVars == <<rules, ruleConfig, llmConfig, ops, lastAdded>>

runVars ==
    <<lpc, linted, lintContext, ignoredRules, cursor, allWarnings, checks,
      rulesChecked, llmCalls, generateCalls, lintResult, baseline>>

parserVars == <<raw, ppc, attempts, parsedWarnings>>

mapVars == <<original, restored>>

builderVars == <<arrays, optionObjects, builder, built, observed>>

vars == <<renderVars, linterVars, runVars, parserVars, mapVars, builderVars>>

(***************************************************************************)
(* Bounds of the model.                                                    *)
(***************************************************************************)
MaxSections == 2
MaxClock == 1
MaxRenders == 2

(***************************************************************************)
(* Strings                                                                 *)
(***************************************************************************)
Undefined == "undefined"

\* The number of characters of a lexeme.
CharLen(l) ==
    CASE l = "LONG" -> 80    \* a sentence of 80 characters without a newline
      [] l = "<!--" -> 4
      [] l = "-->" -> 3
      [] l = "</" -> 2
      [] l = "##" -> 2
      [] l = "---" -> 3
      [] l = "promptier-ignore" -> 16
      [] l = "PROMPTIER-IGNORE" -> 16
      [] l = "promptier-ignore-all" -> 20
      [] l = "Promptier-Ignore-All" -> 20
      [] l = "missing-identity" -> 16
      [] l = "custom-check" -> 12
      [] l = "my" -> 2
      [] l = "rule" -> 4
      [] l = "user_input" -> 10
      [] l = "{{user" -> 6
      [] l = "name}}" -> 6
      [] l = "always" -> 6
      [] l = "never" -> 5
      [] l = "identity" -> 8
      [] l = "format" -> 6
      [] l = "constraints" -> 11
      [] l = "context" -> 7
      [] l = "notes" -> 5
      [] l = "Identity" -> 8
      [] l = "Output Format" -> 13
      [] l = "Constraints" -> 11
      [] l = "Context" -> 7
      [] l = "Notes" -> 5
      [] l = "IDENTITY" -> 8
      [] l = "OUTPUT FORMAT" -> 13
      [] l = "CONSTRAINTS" -> 11
      [] l = "CONTEXT" -> 7
      [] l = "NOTES" -> 5
      [] l = "{{user.name}}" -> 13
      [] l = "{{$model}}" -> 10
      [] l = "{{$now}}" -> 8
      [] l = "{{topic}}" -> 9
      [] l = "claude-sonnet-4-20250514" -> 24
      [] l = "gpt-4o" -> 6
      [] l = "llama3" -> 6
      [] l = "concise" -> 7
      [] l = "detailed" -> 8
      [] l = "T0" -> 26    \* JSON.stringify of a Date: a quoted ISO time
      [] l = "T1" -> 26
      [] l = "T2" -> 26
      [] l = "T3" -> 26
      [] l \in {"T0:s", "T1:s", "T2:s", "T3:s"} -> 20   \* up to the seconds
      [] l \in {"T0:ms", "T1:ms", "T2:ms", "T3:ms"} -> 5 \* from the milliseconds
      [] OTHER -> 1

RECURSIVE StrLen(_)
StrLen(s) == IF s = <<>> THEN 0 ELSE CharLen(Head(s)) + StrLen(Tail(s))

\* The character offset at which the k-th lexeme of s starts (k in 1..Len(s)+1).
CharOffset(s, k) == StrLen(SubSeq(s, 1, k - 1))

IsSpace(l) == l \in {" ", "\n"}

\* String.prototype.trim
RECURSIVE TrimStart(_)
TrimStart(s) ==
    IF s # <<>> /\ IsSpace(Head(s)) THEN TrimStart(Tail(s)) ELSE s

RECURSIVE TrimEnd(_)
TrimEnd(s) ==
    IF s # <<>> /\ IsSpace(s[Len(s)]) THEN TrimEnd(SubSeq(s, 1, Len(s) - 1)) ELSE s

Trim(s) == TrimEnd(TrimStart(s))

\* pat occurs in s at lexeme position k
MatchAt(s, pat, k) ==
    /\ k >= 1
    /\ k + Len(pat) - 1 <= Len(s)
    /\ SubSeq(s, k, k + Len(pat) - 1) = pat

\* MUTANT of IndexOf: the search starts at the beginning of the string
\* whatever `from` is
IndexOfAnywhere(s, pat, from) ==
    LET hits == {k \in 1..(Len(s) + 1) : MatchAt(s, pat, k)}
    IN  IF hits = {} THEN -1
        ELSE CharOffset(s, CHOOSE k \in hits : \A j \in hits : k <= j)

\* String.prototype.indexOf(pat, from): the least character offset >= from at
\* which pat occurs, or -1.
IndexOf(s, pat, from) ==
    LET hits == {k \in 1..(Len(s) + 1) :
                    MatchAt(s, pat, k) /\ CharOffset(s, k) >= from}
    IN  IF hits = {} THEN -1
        ELSE CharOffset(s, CHOOSE k \in hits : \A j \in hits : k <= j)

Includes(s, l) == \E k \in 1..Len(s) : s[k] = l

\* Array.prototype.join of a list of strings
RECURSIVE Join(_, _)
Join(parts, sep) ==
    IF parts = <<>> THEN <<>>
    ELSE IF Len(parts) = 1 THEN parts[1]
    ELSE parts[1] \o sep \o Join(Tail(parts), sep)

RECURSIVE SeqMap(_, _)
SeqMap(Op(_), s) ==
    IF s = <<>> THEN <<>> ELSE <<Op(Head(s))>> \o SeqMap(Op, Tail(s))

RECURSIVE SeqFilter(_, _)
SeqFilter(Test(_), s) ==
    IF s = <<>> THEN <<>>
    ELSE IF Test(Head(s)) THEN <<Head(s)>> \o SeqFilter(Test, Tail(s))
    ELSE SeqFilter(Test, Tail(s))

(***************************************************************************)
(* Sections (packages/core/src/section.ts)                                 *)
(***************************************************************************)
SectionTypes == {"identity", "capabilities", "constraints", "domain", "tools",
                 "context", "examples", "format", "custom"}

DEFAULT_PRIORITIES(type) ==
    CASE type = "identity" -> 0
      [] type = "capabilities" -> 10
      [] type = "constraints" -> 20
      [] type = "domain" -> 30
      [] type = "tools" -> 40
      [] type = "context" -> 50
      [] type = "examples" -> 60
      [] type = "format" -> 70
      [] type = "custom" -> 50

DEFAULT_CACHEABLE(type) == type # "context"

\* The three kinds of section content: a literal string, a fragment
\* definition, a generator function.
StringContent(text) ==
    [kind |-> "string", text |-> text, id |-> Undefined, version |-> Undefined,
     file |-> Undefined, fileLine |-> Undefined, gen |-> Undefined]

FragmentContent(id, version, text, file, fileLine) ==
    [kind |-> "fragment", text |-> text, id |-> id, version |-> version,
     file |-> file, fileLine |-> fileLine, gen |-> Undefined]

DynamicContent(gen) ==
    [kind |-> "function", text |-> <<>>, id |-> Undefined, version |-> Undefined,
     file |-> Undefined, fileLine |-> Undefined, gen |-> gen]

\* SectionOptions: an option is <<>> when absent and <<v>> when given.
NoOptions == [priority |-> <<>>, cacheable |-> <<>>]

OrElse(opt, default) == IF opt = <<>> THEN default ELSE opt[1]

\* Section.create
SectionCreate(type, content, options) ==
    [type |-> type, name |-> Undefined,
     priority |-> OrElse(options.priority, DEFAULT_PRIORITIES(type)),
     cacheable |-> OrElse(options.cacheable, DEFAULT_CACHEABLE(type)),
     content |-> content]

\* Section.context
SectionContext(dynamicFn, options) ==
    [type |-> "context", name |-> Undefined,
     priority |-> OrElse(options.priority, DEFAULT_PRIORITIES("context")),
     cacheable |-> OrElse(options.cacheable, FALSE),
     content |-> dynamicFn]

\* Section.custom
SectionCustom(name, content, options) ==
    [type |-> "custom", name |-> name,
     priority |-> OrElse(options.priority, DEFAULT_PRIORITIES("custom")),
     cacheable |-> OrElse(options.cacheable,
                          IF content.kind = "function" THEN FALSE
                          ELSE DEFAULT_CACHEABLE("custom")),
     content |-> content]

\* Section.isDynamic
IsDynamic(section) == section.content.kind = "function"

\* Section.getFragment: null (Undefined) for a generator, an anonymous
\* fragment for a literal string, the fragment definition otherwise.
NoFragment == [id |-> Undefined, version |-> Undefined, content |-> <<>>,
               sourceFile |-> Undefined, sourceLine |-> Undefined, isNull |-> TRUE]

\* MUTANT of GetFragment: a literal string gets a fragment without an id
GetFragmentUnnamed(section) ==
    IF section.content.kind = "function" THEN NoFragment
    ELSE IF section.content.kind = "string"
    THEN [id |-> "", version |-> "1.0.0",
          content |-> section.content.text,
          sourceFile |-> Undefined, sourceLine |-> Undefined, isNull |-> FALSE]
    ELSE [id |-> section.content.id, version |-> section.content.version,
          content |-> section.content.text,
          sourceFile |-> section.content.file,
          sourceLine |-> section.content.fileLine, isNull |-> FALSE]

GetFragment(section) ==
    IF section.content.kind = "function" THEN NoFragment
    ELSE IF section.content.kind = "string"
    THEN [id |-> "anonymous-" \o section.type, version |-> "1.0.0",
          content |-> section.content.text,
          sourceFile |-> Undefined, sourceLine |-> Undefined, isNull |-> FALSE]
    ELSE [id |-> section.content.id, version |-> section.content.version,
          content |-> section.content.text,
          sourceFile |-> section.content.file,
          sourceLine |-> section.content.fileLine, isNull |-> FALSE]

(***************************************************************************)
(* Models (getModelConfig, part_004)                                       *)
(***************************************************************************)
PreferredFormat(model) ==
    CASE model = "claude-sonnet-4-20250514" -> "xml"
      [] model = "gpt-4o" -> "markdown"
      [] OTHER -> "plain"

(***************************************************************************)
(* Prompt.render (part_006)                                                *)
(***************************************************************************)
\* JSON.stringify of the Date read by `new Date()` at clock value t
TimeLexeme(t) ==
    CASE t = 0 -> "T0" [] t = 1 -> "T1" [] t = 2 -> "T2" [] OTHER -> "T3"

\* MUTANT of EnrichContext: the time of the call is written over the
\* caller's topic
EnrichContextStampedTopic(ctx, p, t) ==
    [topic |-> <<TimeLexeme(t)>>, user |-> ctx.user, model |-> <<p.model>>,
     now |-> <<TimeLexeme(t)>>]

\* render, lines 54-60: the context enriched with the built-in helpers
EnrichContext(ctx, p, t) ==
    [topic |-> ctx.topic, user |-> ctx.user, model |-> <<p.model>>,
     now |-> <<TimeLexeme(t)>>]

\* getNestedValue for the paths of the model: <<>> is undefined
GetNestedValue(ctx, key) ==
    CASE key = "{{topic}}" -> ctx.topic
      [] key = "{{user.name}}" -> ctx.user
      [] key = "{{$model}}" -> ctx.model
      [] key = "{{$now}}" -> ctx.now
      [] OTHER -> <<>>

IsPlaceholder(l) == l \in {"{{topic}}", "{{user.name}}", "{{$model}}", "{{$now}}"}

\* interpolate: a placeholder whose path resolves is replaced by the value,
\* an unresolved one is left verbatim
InterpolateLexeme(l, ctx) ==
    IF IsPlaceholder(l) /\ GetNestedValue(ctx, l) # <<>>
    THEN GetNestedValue(ctx, l)[1] ELSE l

Interpolate(content, ctx) ==
    [k \in 1..Len(content) |-> InterpolateLexeme(content[k], ctx)]

\* What a generator call can do: return a text or throw its error.
GeneratorTexts == {<<"a">>, <<"c", "\n", "a">>}

GeneratorError(gen) == "error-of-" \o gen

GeneratorOutcomes(gen) ==
    {[ok |-> TRUE, text |-> t, error |-> Undefined] : t \in GeneratorTexts}
        \cup {[ok |-> FALSE, text |-> <<>>, error |-> GeneratorError(gen)]}

\* resolveContent for static content (lines 277-282)
ResolveStatic(content, ctx) == Interpolate(content.text, ctx)

\* resolveSections, lines 241-260: the RenderedSection pushed for section i
RenderedSection(section, i, content) ==
    [type |-> section.type, name |-> section.name, content |-> content,
     priority |-> section.priority, cacheable |-> section.cacheable,
     source |-> [type |-> IF IsDynamic(section) THEN "dynamic" ELSE "fragment",
                 sectionType |-> section.type,
                 sectionIndex |-> i,
                 fragmentId |-> GetFragment(section).id,
                 fragmentVersion |-> GetFragment(section).version,
                 file |-> GetFragment(section).sourceFile,
                 fileLine |-> GetFragment(section).sourceLine]]

\* MUTANT of InsertByPriority: an element goes before its equals
RECURSIVE InsertByPriorityUnstable(_, _)
InsertByPriorityUnstable(sorted, x) ==
    IF sorted = <<>> THEN <<x>>
    ELSE IF Head(sorted).priority < x.priority
    THEN <<Head(sorted)>> \o InsertByPriorityUnstable(Tail(sorted), x)
    ELSE <<x>> \o sorted

\* Array.prototype.sort((a, b) => a.priority - b.priority): a stable sort
RECURSIVE InsertByPriority(_, _)
InsertByPriority(sorted, x) ==
    IF sorted = <<>> THEN <<x>>
    ELSE IF Head(sorted).priority <= x.priority
    THEN <<Head(sorted)>> \o InsertByPriority(Tail(sorted), x)
    ELSE <<x>> \o sorted

RECURSIVE SortByPriority(_)
SortByPriority(s) ==
    IF s = <<>> THEN <<>>
    ELSE InsertByPriority(SortByPriority(SubSeq(s, 1, Len(s) - 1)), s[Len(s)])

IsCacheable(s) == s.cacheable
IsNotCacheable(s) == ~s.cacheable

\* MUTANT of OptimizeForCaching: one sort of the whole list, no partition
OptimizeForCachingUnpartitioned(sections) == SortByPriority(sections)

\* optimizeForCaching
OptimizeForCaching(sections) ==
    SortByPriority(SeqFilter(IsCacheable, sections))
        \o SortByPriority(SeqFilter(IsNotCacheable, sections))

(***************************************************************************)
(* Formatters (part_007 xml, format/markdown.ts, part_006 plain)           *)
(***************************************************************************)
SECTION_TAGS(type) == IF type = "custom" THEN "section" ELSE type

\* sanitizeTagName, for the custom names of the model (lower-case words)
SanitizeTagName(name) == IF name = "" THEN "section" ELSE name

\* XmlFormatter.getTagName
GetTagName(section) ==
    IF section.type = "custom" /\ section.name \notin {Undefined, ""}
    THEN SanitizeTagName(section.name)
    ELSE SECTION_TAGS(section.type)

\* XmlFormatter.formatSection
XmlFormatSection(section) ==
    LET tagName == GetTagName(section)
        content == Trim(section.content)
    IN  IF content = <<>>
        THEN <<"<", tagName, ">", "</", tagName, ">">>
        ELSE IF ~Includes(content, "\n") /\ StrLen(content) < 80
        THEN <<"<", tagName, ">">> \o content \o <<"</", tagName, ">">>
        ELSE <<"<", tagName, ">", "\n">> \o content
                \o <<"\n", "</", tagName, ">">>

SECTION_HEADERS(type) ==
    CASE type = "identity" -> "Identity"
      [] type = "capabilities" -> "Capabilities"
      [] type = "constraints" -> "Constraints"
      [] type = "context" -> "Context"
      [] type = "domain" -> "Domain Knowledge"
      [] type = "tools" -> "Available Tools"
      [] type = "format" -> "Output Format"
      [] type = "examples" -> "Examples"
      [] type = "custom" -> "Section"

\* toTitleCase, for the custom names of the model
ToTitleCase(name) == IF name = "notes" THEN "Notes" ELSE name

\* MarkdownFormatter.formatSection, headerLevel 2
MarkdownFormatSection(section) ==
    LET header == IF section.type = "custom" /\ section.name \notin {Undefined, ""}
                  THEN ToTitleCase(section.name)
                  ELSE SECTION_HEADERS(section.type)
        content == Trim(section.content)
    IN  IF content = <<>>
        THEN <<"##", " ", header>>
        ELSE <<"##", " ", header, "\n", "\n">> \o content

SECTION_LABELS(type) ==
    CASE type = "identity" -> "IDENTITY"
      [] type = "capabilities" -> "CAPABILITIES"
      [] type = "constraints" -> "CONSTRAINTS"
      [] type = "context" -> "CONTEXT"
      [] type = "domain" -> "DOMAIN"
      [] type = "tools" -> "TOOLS"
      [] type = "format" -> "OUTPUT FORMAT"
      [] type = "examples" -> "EXAMPLES"
      [] type = "custom" -> "SECTION"

\* name.toUpperCase().replace(/[-_]/g, ' '), for the custom names of the model
ToLabel(name) == IF name = "notes" THEN "NOTES" ELSE name

\* PlainFormatter.formatSection, includeLabels true
PlainFormatSection(section) ==
    LET label == IF section.type = "custom" /\ section.name \notin {Undefined, ""}
                 THEN ToLabel(section.name)
                 ELSE SECTION_LABELS(section.type)
        content == Trim(section.content)
    IN  IF content = <<>>
        THEN <<"[", label, "]">>
        ELSE <<"[", label, "]", "\n">> \o content

RawSection(section) == section.content

\* render, lines 72-86: the formatter chosen by the options and the model,
\* applied to the ordered sections
FormatSections(p, sections) ==
    LET format == IF p.options.formatForModel = FALSE THEN "none"
                  ELSE IF p.options.format # Undefined THEN p.options.format
                  ELSE PreferredFormat(p.model)
    IN  CASE format = "none" ->
                Join(SeqMap(RawSection, sections), <<"\n", "\n">>)
          [] format = "xml" ->
                Join(SeqMap(XmlFormatSection, sections), <<"\n", "\n">>)
          [] format = "markdown" ->
                Join(SeqMap(MarkdownFormatSection, sections), <<"\n", "\n">>)
          [] OTHER ->
                Join(SeqMap(PlainFormatSection, sections),
                     <<"\n", "\n", "---", "\n", "\n">>)

(***************************************************************************)
(* SourceMap (packages/core/src/source-map.ts)                             *)
(***************************************************************************)
Min(a, b) == IF a < b THEN a ELSE b

\* SourceMap.getLineColumn: walk the characters before the offset, counting
\* lines at newlines and columns otherwise; k is the lexeme reached and pos
\* the character offset at which it starts
RECURSIVE ScanLineColumn(_, _, _, _, _, _)
ScanLineColumn(text, offset, k, pos, line, column) ==
    IF k > Len(text) \/ pos >= offset THEN [line |-> line, column |-> column]
    ELSE IF text[k] = "\n"
    THEN ScanLineColumn(text, offset, k + 1, pos + 1, line + 1, 1)
    ELSE ScanLineColumn(text, offset, k + 1, pos + CharLen(text[k]), line,
                        column + Min(CharLen(text[k]), offset - pos))

GetLineColumn(text, offset) == ScanLineColumn(text, offset, 1, 0, 1, 1)

Truthy(str) == str \notin {Undefined, ""}

\* buildSourceMap, lines 358-380: the mapping added for a located section
MappingFor(text, section, i, sectionStart, sectionEnd) ==
    LET at == GetLineColumn(text, sectionStart)
        out == [start |-> sectionStart, end |-> sectionEnd,
                line |-> at.line, column |-> at.column]
    IN  IF section.source.type = "dynamic"
        THEN [output |-> out,
              source |-> [type |-> "dynamic", sectionType |-> section.type,
                          sectionIndex |-> i, fragmentId |-> Undefined,
                          fragmentVersion |-> Undefined, file |-> Undefined,
                          fileLine |-> Undefined]]
        ELSE IF Truthy(section.source.fragmentId)
        THEN [output |-> out,
              source |-> [type |-> "fragment", sectionType |-> section.type,
                          sectionIndex |-> i,
                          fragmentId |-> section.source.fragmentId,
                          fragmentVersion |->
                              IF section.source.fragmentVersion = Undefined
                              THEN "1.0.0" ELSE section.source.fragmentVersion,
                          file |-> section.source.file,
                          fileLine |-> section.source.fileLine]]
        ELSE [output |-> out,
              source |-> [type |-> "literal", sectionType |-> section.type,
                          sectionIndex |-> i, fragmentId |-> Undefined,
                          fragmentVersion |-> Undefined, file |-> Undefined,
                          fileLine |-> Undefined]]

\* MUTANT of BuildMappings: the search cursor is not advanced
RECURSIVE BuildMappingsNoCursor(_, _, _, _)
BuildMappingsNoCursor(text, sections, i, offset) ==
    IF i > Len(sections) THEN <<>>
    ELSE LET section == sections[i]
             sectionStart == IndexOf(text, section.content, offset)
             sectionEnd == sectionStart + StrLen(section.content)
         IN  IF sectionStart = -1
             THEN BuildMappingsNoCursor(text, sections, i + 1, offset)
             ELSE <<MappingFor(text, section, i - 1, sectionStart, sectionEnd)>>
                    \o BuildMappingsNoCursor(text, sections, i + 1, offset)

\* buildSourceMap, lines 347-383: the forward search, from section i
\* (1-based here, recorded 0-based) with the cursor at `offset`
RECURSIVE BuildMappings(_, _, _, _)
BuildMappings(text, sections, i, offset) ==
    IF i > Len(sections) THEN <<>>
    ELSE LET section == sections[i]
             sectionStart == IndexOf(text, section.content, offset)
             sectionEnd == sectionStart + StrLen(section.content)
         IN  IF sectionStart = -1
             THEN BuildMappings(text, sections, i + 1, offset)
             ELSE <<MappingFor(text, section, i - 1, sectionStart, sectionEnd)>>
                    \o BuildMappings(text, sections, i + 1, sectionEnd)

BuildSourceMap(p, text, sections) ==
    [version |-> 1, prompt |-> p.name, renderedText |-> text,
     mappings |-> BuildMappings(text, sections, 1, 0)]

\* SourceMap.toJSON
ToJSON(sourceMap) ==
    [version |-> 1, prompt |-> sourceMap.prompt, mappings |-> sourceMap.mappings]

\* new SourceMap(promptName): no mapping, renderedText = ''
NewSourceMap(promptName) ==
    [version |-> 1, prompt |-> promptName, renderedText |-> <<>>,
     mappings |-> <<>>]

\* SourceMap.setRenderedText
SetRenderedText(sm, text) == [sm EXCEPT !.renderedText = text]

\* SourceMap.addMapping
AddMapping(sm, mapping) == [sm EXCEPT !.mappings = Append(@, mapping)]

\* the `output` of the mapping pushed by the four typed add operations
OutputAt(sm, outputStart, outputEnd) ==
    [start |-> outputStart, end |-> outputEnd,
     line |-> GetLineColumn(sm.renderedText, outputStart).line,
     column |-> GetLineColumn(sm.renderedText, outputStart).column]

\* SourceMap.addFragmentMapping
AddFragmentMapping(sm, options) ==
    AddMapping(sm,
        [output |-> OutputAt(sm, options.outputStart, options.outputEnd),
         source |-> [type |-> "fragment", sectionType |-> options.sectionType,
                     sectionIndex |-> options.sectionIndex,
                     fragmentId |-> options.fragmentId,
                     fragmentVersion |-> options.fragmentVersion,
                     file |-> options.sourceFile,
                     fileLine |-> options.sourceLine]])

\* SourceMap.addDynamicMapping
AddDynamicMapping(sm, options) ==
    AddMapping(sm,
        [output |-> OutputAt(sm, options.outputStart, options.outputEnd),
         source |-> [type |-> "dynamic", sectionType |-> options.sectionType,
                     sectionIndex |-> options.sectionIndex,
                     dynamicKey |-> options.dynamicKey]])

\* SourceMap.addLiteralMapping
AddLiteralMapping(sm, outputStart, outputEnd, sectionType, sectionIndex) ==
    AddMapping(sm,
        [output |-> OutputAt(sm, outputStart, outputEnd),
         source |-> [type |-> "literal", sectionType |-> sectionType,
                     sectionIndex |-> sectionIndex]])

\* SourceMap.addGeneratedMapping
AddGeneratedMapping(sm, outputStart, outputEnd, sectionType, sectionIndex) ==
    AddMapping(sm,
        [output |-> OutputAt(sm, outputStart, outputEnd),
         source |-> [type |-> "generated", sectionType |-> sectionType,
                     sectionIndex |-> sectionIndex]])

\* what a query returns when no mapping answers it
Null == [isNull |-> TRUE]

\* the mappings whose half-open range holds the offset
Holding(sm, offset) ==
    {k \in 1..Len(sm.mappings) :
        /\ offset >= sm.mappings[k].output.start
        /\ offset < sm.mappings[k].output.end}

\* MUTANT of OriginAtOffset: the loop keeps the last mapping that holds the
\* offset instead of returning at the first one
OriginAtOffsetLast(sm, offset) ==
    IF Holding(sm, offset) = {} THEN Null
    ELSE sm.mappings[CHOOSE k \in Holding(sm, offset) :
                        \A j \in Holding(sm, offset) : j <= k].source

\* SourceMap.originAtOffset: the loop returns at the first mapping, in
\* insertion order, whose range holds the offset
OriginAtOffset(sm, offset) ==
    IF Holding(sm, offset) = {} THEN Null
    ELSE sm.mappings[CHOOSE k \in Holding(sm, offset) :
                        \A j \in Holding(sm, offset) : k <= j].source

\* SourceMap.getCharOffset: walk the characters of renderedText until the
\* line is reached or the text ends; k is the lexeme reached and pos the
\* character offset at which it starts
RECURSIVE ScanCharOffset(_, _, _, _, _)
ScanCharOffset(text, line, k, pos, currentLine) ==
    IF k > Len(text) \/ currentLine >= line THEN pos
    ELSE ScanCharOffset(text, line, k + 1, pos + CharLen(text[k]),
                        IF text[k] = "\n" THEN currentLine + 1 ELSE currentLine)

GetCharOffset(text, line, column) ==
    ScanCharOffset(text, line, 1, 0, 1) + column - 1

\* SourceMap.originAt
OriginAt(sm, line, column) ==
    OriginAtOffset(sm, GetCharOffset(sm.renderedText, line, column))

\* m.source.fragmentId: undefined for an origin without the member
FragmentIdOf(source) ==
    IF "fragmentId" \in DOMAIN source THEN source.fragmentId ELSE Undefined

\* SourceMap.positionsFrom
RECURSIVE PositionsIn(_, _)
PositionsIn(mappings, fragmentId) ==
    IF mappings = <<>> THEN <<>>
    ELSE (IF FragmentIdOf(Head(mappings).source) = fragmentId
          THEN <<Head(mappings).output>> ELSE <<>>)
         \o PositionsIn(Tail(mappings), fragmentId)

PositionsFrom(sm, fragmentId) == PositionsIn(sm.mappings, fragmentId)

\* SourceMap.fromJSON: a new SourceMap given the mappings of the data one
\* by one; its renderedText stays ''
RECURSIVE AddMappings(_, _)
AddMappings(sm, mappings) ==
    IF mappings = <<>> THEN sm
    ELSE AddMappings(AddMapping(sm, Head(mappings)), Tail(mappings))

\* MUTANT of FromJSON: the mappings of the data are added last to first
FromJSONBackwards(data) ==
    AddMappings(NewSourceMap(data.prompt),
                [k \in 1..Len(data.mappings) |->
                    data.mappings[Len(data.mappings) + 1 - k]])

FromJSON(data) == AddMappings(NewSourceMap(data.prompt), data.mappings)

(***************************************************************************)
(* Prompt.buildMetadata (part_006)                                         *)
(***************************************************************************)
\* countTokens with the character-based estimator (part_005, line 47)
CountTokens(text) == (StrLen(text) + 3) \div 4

\* getModelConfig(model).contextWindow; "tiny" is a model registered with
\* registerModel and a small window
ContextWindow(model) ==
    CASE model = "claude-sonnet-4-20250514" -> 200000
      [] model = "gpt-4o" -> 128000
      [] model = "tiny" -> 24
      [] OTHER -> 8192

SectionKey(section) ==
    IF section.name = Undefined THEN section.type ELSE section.name

RECURSIVE SumTokens(_, _)
SumTokens(sections, key) ==
    IF sections = <<>> THEN 0
    ELSE (IF SectionKey(Head(sections)) = key
          THEN CountTokens(Head(sections).content) ELSE 0)
         + SumTokens(Tail(sections), key)

\* buildMetadata, lines 399-404
TokensBySection(sections) ==
    [key \in {SectionKey(sections[k]) : k \in 1..Len(sections)} |->
        SumTokens(sections, key)]

\* buildMetadata, lines 407-414: over the leading run of cacheable sections
RECURSIVE CacheablePrefix(_)
CacheablePrefix(sections) ==
    IF sections = <<>> \/ ~Head(sections).cacheable THEN 0
    ELSE StrLen(Head(sections).content) + 4 + CacheablePrefix(Tail(sections))

RECURSIVE CacheableTokens(_, _)
CacheableTokens(sections, tokensBySection) ==
    IF sections = <<>> \/ ~Head(sections).cacheable THEN 0
    ELSE tokensBySection[SectionKey(Head(sections))]
         + CacheableTokens(Tail(sections), tokensBySection)

\* MUTANT of FragmentReferences: the entries are numbered among themselves,
\* the generator sections not counted
FragmentReferencesCompact(sections, i) ==
    LET static == SelectSeq(sections, LAMBDA s : ~GetFragment(s).isNull)
    IN  [k \in 1..Len(static) |->
            [id |-> GetFragment(static[k]).id,
             version |-> GetFragment(static[k]).version,
             sectionType |-> static[k].type,
             sectionIndex |-> k - 1]]

\* buildMetadata, lines 417-429: over the declared sections
RECURSIVE FragmentReferences(_, _)
FragmentReferences(sections, i) ==
    IF i > Len(sections) THEN <<>>
    ELSE (IF GetFragment(sections[i]).isNull THEN <<>>
          ELSE <<[id |-> GetFragment(sections[i]).id,
                  version |-> GetFragment(sections[i]).version,
                  sectionType |-> sections[i].type,
                  sectionIndex |-> i - 1]>>)
         \o FragmentReferences(sections, i + 1)

FirstIndex(Test(_), s) ==
    LET hits == {k \in 1..Len(s) : Test(s[k])}
    IN  IF hits = {} THEN -1 ELSE (CHOOSE k \in hits : \A j \in hits : k <= j) - 1

LastIndex(Test(_), s) ==
    LET hits == {k \in 1..Len(s) : Test(s[k])}
    IN  IF hits = {} THEN -1 ELSE (CHOOSE k \in hits : \A j \in hits : j <= k) - 1

IsIdentity(s) == s.type = "identity"
IsFormat(s) == s.type = "format"

\* Prompt.lint: the ids of the quick-validation warnings
PromptLint(p) ==
    (IF FirstIndex(IsIdentity, p.sections) = -1
     THEN <<"missing-identity">> ELSE <<>>)
    \o (IF FirstIndex(IsFormat, p.sections) # -1
           /\ FirstIndex(IsFormat, p.sections) # Len(p.sections) - 1
        THEN <<"format-not-last">> ELSE <<>>)
    \o (IF FirstIndex(IsNotCacheable, p.sections) # -1
           /\ LastIndex(IsCacheable, p.sections) # -1
           /\ FirstIndex(IsNotCacheable, p.sections)
                < LastIndex(IsCacheable, p.sections)
        THEN <<"dynamic-before-static">> ELSE <<>>)

BuildMetadata(p, text, sections, sourceMap) ==
    LET tokenCount == CountTokens(text)
        tokensBySection == TokensBySection(sections)
    IN  [name |-> p.name, model |-> p.model, tokenCount |-> tokenCount,
         tokensBySection |-> tokensBySection,
         sourceMap |-> ToJSON(sourceMap),
         warnings |-> PromptLint(p)
            \o (IF tokenCount > ContextWindow(p.model)
                THEN <<"token-limit-exceeded">>
                ELSE IF tokenCount * 10 > ContextWindow(p.model) * 8
                THEN <<"token-limit-warning">> ELSE <<>>),
         cacheablePrefix |-> CacheablePrefix(sections),
         cacheableTokens |-> CacheableTokens(sections, tokensBySection),
         fragments |-> FragmentReferences(p.sections, 1)]

\* render, lines 65-94, once every section is resolved
OrderSections(p, resolvedSections) ==
    IF p.options.cacheOptimize # FALSE
    THEN OptimizeForCaching(resolvedSections) ELSE resolvedSections

Compile(p, resolvedSections) ==
    LET orderedSections == OrderSections(p, resolvedSections)
        text == FormatSections(p, orderedSections)
        sourceMap == BuildSourceMap(p, text, orderedSections)
    IN  [status |-> "fulfilled", error |-> Undefined, text |-> text,
         ordered |-> orderedSections,
         meta |-> BuildMetadata(p, text, orderedSections, sourceMap)]

\* what a rejected render leaves its caller with: the error, no text, no meta
Rejected(error) ==
    [status |-> "rejected", error |-> error, text |-> <<>>,
     ordered |-> <<>>, meta |-> Undefined]

NotSettled ==
    [status |-> "pending", error |-> Undefined, text |-> <<>>,
     ordered |-> <<>>, meta |-> Undefined]

(***************************************************************************)
(* The prompts and contexts of the model                                   *)
(***************************************************************************)
SectionPool ==
    { SectionCreate("identity", StringContent(<<"a">>), NoOptions),
      SectionCreate("constraints",
                    FragmentContent("frag-rules", "2.1.0",
                                    <<"{{topic}}", "{{user.name}}">>,
                                    "rules.md", "3"),
                    NoOptions),
      SectionContext(DynamicContent("g1"), NoOptions),
      SectionCustom("notes", DynamicContent("g2"),
                    [priority |-> <<5>>, cacheable |-> <<>>]),
      SectionCreate("identity", StringContent(<<" ", "a", "\n", "b">>), NoOptions),
      SectionCreate("constraints", StringContent(<<"identity">>), NoOptions),
      SectionCreate("domain", StringContent(<<"{{$now}}">>), NoOptions),
      SectionCreate("format", StringContent(<<>>), NoOptions) }

SeqsUpTo(S, n) == UNION {[1..k -> S] : k \in 0..n}

DefaultOptions ==
    [cacheOptimize |-> TRUE, formatForModel |-> TRUE, format |-> Undefined]

\* model and options of a prompt
Targets ==
    { [model |-> "claude-sonnet-4-20250514", options |-> DefaultOptions],
      [model |-> "gpt-4o", options |-> DefaultOptions],
      [model |-> "tiny",
       options |-> [DefaultOptions EXCEPT !.cacheOptimize = FALSE]],
      [model |-> "claude-sonnet-4-20250514",
       options |-> [DefaultOptions EXCEPT !.formatForModel = FALSE]] }

\* Prompt.compose / PromptBuilder.build
Compose(name, model, sections, options) ==
    [name |-> name, model |-> model, sections |-> sections, options |-> options]

\* a fragment defined with the empty string as its id
UnnamedFragment ==
    SectionCreate("constraints",
                  FragmentContent("", "0.1.0", <<"b">>, Undefined, Undefined),
                  NoOptions)

\* section lists that hold the fragment without an id
UnnamedFragmentLists ==
    { <<UnnamedFragment>>,
      <<SectionCreate("identity", StringContent(<<"a">>), NoOptions),
        UnnamedFragment>>,
      <<UnnamedFragment, SectionContext(DynamicContent("g1"), NoOptions)>> }

RenderPrompts ==
    {Compose("agent", t.model, ss, t.options) :
        t \in Targets,
        ss \in SeqsUpTo(SectionPool, MaxSections) \cup UnnamedFragmentLists}

\* the context of the model defines `topic` and leaves `user` undefined
RenderContexts == {[topic |-> <<"c">>, user |-> <<>>]}

(***************************************************************************)
(* PromptBuilder and the Prompts made from it (part_006).  Arrays and      *)
(* option objects live on a heap and are held by reference, so that two    *)
(* holders of one array see each other's pushes.                           *)
(***************************************************************************)
\* new PromptBuilder(name), lines 493-500: _sections is the array at
\* reference 1 and _options the object at reference 1 of a fresh heap
NewBuilder(name) ==
    [name |-> name, model |-> "claude-sonnet-4-20250514", sections |-> 1,
     options |-> 1]

\* new Prompt(config), lines 35-40: the Prompt keeps the very array and the
\* very options object of the config; `by` and `made` record which
\* operation made it and the section list it was made with
NewPrompt(name, model, sectionsRef, optionsRef, by, made) ==
    [name |-> name, model |-> model, sections |-> sectionsRef,
     options |-> optionsRef, by |-> by, made |-> made]

\* { ...a, ...b } for PromptOptions: b holds some of the members
MergeOptions(a, b) == b @@ a

\* extend, line 108: [...this.sections, ...(config.sections ?? [])]
ExtendSections(sections, more) == sections \o more

\* override, lines 117-120: a section is replaced by the override given
\* for its type
OverrideSections(sections, overrides) ==
    [k \in 1..Len(sections) |->
        IF sections[k].type \in DOMAIN overrides
        THEN overrides[sections[k].type] ELSE sections[k]]

(***************************************************************************)
(* Prompt.render as a process: one step per awaited section               *)
(***************************************************************************)
RenderInit ==
    /\ prompt \in RenderPrompts
    /\ context \in RenderContexts
    /\ enriched = EnrichContext(context, prompt, 0)
    /\ rpc = "idle"
    /\ resolved = <<>>
    /\ invoked = <<>>
    /\ compiled = NotSettled
    /\ previous = NotSettled
    /\ renders = 0
    /\ now = 0

\* render is called (lines 52-60) and reads the clock, which has not moved
\* or has moved on since the previous call; time counts from the first call
RenderStart ==
    /\ rpc \in {"idle", "fulfilled", "rejected"}
    /\ renders < MaxRenders
    /\ renders' = renders + 1
    /\ now' \in {t \in now..Min(now + 1, MaxClock) : renders = 0 => t = now}
    /\ enriched' = EnrichContext(context, prompt, now')
    /\ rpc' = "resolving"
    /\ resolved' = <<>>
    /\ invoked' = <<>>
    /\ previous' = compiled
    /\ compiled' = NotSettled
    /\ UNCHANGED <<prompt, context, linterVars, runVars, parserVars, mapVars, builderVars>>

\* MUTANT of NextSection: the loop takes the section declared last
NextSectionLast == prompt.sections[Len(prompt.sections)]

\* resolveSections, line 239: this.sections[i], i the number resolved so far
NextSection == prompt.sections[Len(resolved) + 1]

\* resolveSections: the next section is a literal or a fragment
ResolveStaticSection ==
    /\ rpc = "resolving"
    /\ Len(resolved) < Len(prompt.sections)
    /\ ~IsDynamic(NextSection)
    /\ resolved' = Append(resolved,
            RenderedSection(NextSection, Len(resolved),
                            ResolveStatic(NextSection.content, enriched)))
    /\ UNCHANGED <<prompt, context, enriched, rpc, invoked, compiled, previous,
                   renders, now, linterVars, runVars, parserVars, mapVars, builderVars>>

\* MUTANT of OnGeneratorOutcome: the error of a generator is swallowed and the
\* section resolves to the empty string
OnGeneratorOutcomeSwallow(section, i, outcome) ==
    [rpc |-> "resolving",
     resolved |-> Append(resolved, RenderedSection(section, i, outcome.text)),
     compiled |-> compiled]

\* what resolveSections does with the outcome of the awaited generator call
OnGeneratorOutcome(section, i, outcome) ==
    IF outcome.ok
    THEN [rpc |-> "resolving",
          resolved |-> Append(resolved, RenderedSection(section, i, outcome.text)),
          compiled |-> compiled]
    ELSE [rpc |-> "rejected", resolved |-> resolved,
          compiled |-> Rejected(outcome.error)]

\* resolveSections: the next section is dynamic; its generator is invoked and
\* awaited, and returns or throws
ResolveDynamicSection ==
    /\ rpc = "resolving"
    /\ Len(resolved) < Len(prompt.sections)
    /\ IsDynamic(NextSection)
    /\ \E outcome \in GeneratorOutcomes(NextSection.content.gen) :
         LET after == OnGeneratorOutcome(NextSection, Len(resolved), outcome)
         IN  /\ invoked' = Append(invoked,
                    [gen |-> NextSection.content.gen, index |-> Len(resolved),
                     ok |-> outcome.ok, error |-> outcome.error])
             /\ rpc' = after.rpc
             /\ resolved' = after.resolved
             /\ compiled' = after.compiled
    /\ UNCHANGED <<prompt, context, enriched, previous, renders, now,
                   linterVars, runVars, parserVars, mapVars, builderVars>>

\* every section is resolved: order, format, map, measure, return
RenderFinish ==
    /\ rpc = "resolving"
    /\ Len(resolved) = Len(prompt.sections)
    /\ compiled' = Compile(prompt, resolved)
    /\ rpc' = "fulfilled"
    /\ UNCHANGED <<prompt, context, enriched, resolved, invoked, previous,
                   renders, now, linterVars, runVars, parserVars, mapVars, builderVars>>

RenderNext ==
    \/ RenderStart
    \/ ResolveStaticSection
    \/ ResolveDynamicSection
    \/ RenderFinish

(***************************************************************************)
(* Claims about Prompt.render                                              *)
(***************************************************************************)
Mappings == compiled.meta.sourceMap.mappings

\* the generators of the dynamic sections declared after declaration index i
DeclaredAfter(i) ==
    {k \in 1..Len(prompt.sections) : k - 1 > i /\ IsDynamic(prompt.sections[k])}

\* C9: when the generator of a dynamic section throws during render, the
\* call rejects with that very error, leaves its caller without text and
\* without metadata, and the throwing call is the last generator call of
\* the render: no generator of a section declared later is invoked.
C9_GeneratorFailureIsFatal ==
    \A k \in 1..Len(invoked) :
        ~invoked[k].ok =>
            /\ rpc = "rejected"
            /\ compiled.status = "rejected"
            /\ compiled.error = GeneratorError(invoked[k].gen)
            /\ compiled.text = <<>>
            /\ compiled.meta = Undefined
            /\ k = Len(invoked)
            /\ \A j \in 1..Len(invoked) : invoked[j].index <= invoked[k].index

\* a generator threw while a dynamic section was still declared after it
C9_Witness ==
    /\ rpc = "rejected"
    /\ invoked # <<>>
    /\ ~invoked[Len(invoked)].ok
    /\ DeclaredAfter(invoked[Len(invoked)].index) # {}

\* the half-open ranges of two mappings share a character position
Overlap(m1, m2) ==
    /\ m1.output.start < m2.output.end
    /\ m2.output.start < m1.output.end
    /\ m1.output.start < m1.output.end
    /\ m2.output.start < m2.output.end

\* C10: in the provenance table of every render, the half-open ranges of two
\* distinct mappings do not overlap.
C10_MappingsDoNotOverlap ==
    rpc = "fulfilled" =>
        \A i, j \in 1..Len(Mappings) :
            i # j => ~Overlap(Mappings[i], Mappings[j])

\* a render with two non-empty mappings and a gap between them
C10_Witness ==
    /\ rpc = "fulfilled"
    /\ \E i, j \in 1..Len(Mappings) :
        /\ Mappings[i].output.start < Mappings[i].output.end
        /\ Mappings[i].output.end < Mappings[j].output.start
        /\ Mappings[j].output.start < Mappings[j].output.end

(***************************************************************************)
(* Lexeme classes used by the regular expressions of the lint package      *)
(***************************************************************************)
\* the lexeme at position j, "" past the end of the string
At(text, j) == IF j \in 1..Len(text) THEN text[j] ELSE ""

\* lexemes holding a character outside [A-Za-z0-9_-]
NonWordLexemes ==
    {"", " ", "\n", "<!--", "-->", "<", ">", "</", "[", "]", ":", ",", ".",
     "{{user.name}}", "{{$model}}", "{{$now}}", "{{topic}}", "{{user", "name}}",
     "Output Format", "OUTPUT FORMAT", "T0", "T1", "T2", "T3", "##", "LONG"}

\* the lexeme matches [\w-]+
IsWord(l) == l \notin NonWordLexemes

\* the lexeme matches [a-z][a-z0-9-]* under the i flag
IsTagWord(l) == IsWord(l) /\ l \notin {"---", "user_input"}

\* String.prototype.toLowerCase, lexeme by lexeme
Lower(l) ==
    CASE l = "PROMPTIER-IGNORE" -> "promptier-ignore"
      [] l = "Promptier-Ignore-All" -> "promptier-ignore-all"
      [] l \in {"Identity", "IDENTITY"} -> "identity"
      [] l \in {"Constraints", "CONSTRAINTS"} -> "constraints"
      [] l \in {"Context", "CONTEXT"} -> "context"
      [] l \in {"Notes", "NOTES"} -> "notes"
      [] l \in {"Output Format", "OUTPUT FORMAT"} -> "output format"
      [] OTHER -> l

ToLowerCase(text) == [k \in 1..Len(text) |-> Lower(text[k])]

\* the position reached after \s* from position k
RECURSIVE SkipSpaces(_, _)
SkipSpaces(text, k) ==
    IF k <= Len(text) /\ IsSpace(text[k]) THEN SkipSpaces(text, k + 1) ELSE k

\* the longest match of [\w-]+ at position j: the matched word ("" when
\* there is none) and the position after it
RECURSIVE WordRun(_, _)
WordRun(text, j) ==
    IF j <= Len(text) /\ IsWord(text[j])
    THEN LET rest == WordRun(text, j + 1)
         IN  [word |-> text[j] \o rest.word, next |-> rest.next]
    ELSE [word |-> "", next |-> j]

\* the match of [\w-]+(?:\s*,\s*[\w-]+)* at position j, split at /\s*,\s*/
RECURSIVE IdList(_, _)
IdList(text, j) ==
    LET run == WordRun(text, j)
        comma == SkipSpaces(text, run.next)
        more == IdList(text, SkipSpaces(text, comma + 1))
    IN  IF run.word = "" THEN [ok |-> FALSE, ids |-> {}, next |-> j]
        ELSE IF At(text, comma) = "," /\ more.ok
        THEN [ok |-> TRUE, ids |-> {run.word} \cup more.ids, next |-> more.next]
        ELSE [ok |-> TRUE, ids |-> {run.word}, next |-> run.next]

(***************************************************************************)
(* parseIgnoredRules (packages/lint/src/linter.ts)                         *)
(***************************************************************************)
\* /<!--\s*promptier-ignore-all\s*-->/i matches at position k
XmlIgnoreAllAt(text, k) ==
    LET word == SkipSpaces(text, k + 1)
    IN  /\ At(text, k) = "<!--"
        /\ Lower(At(text, word)) = "promptier-ignore-all"
        /\ At(text, SkipSpaces(text, word + 1)) = "-->"

\* /\[promptier-ignore-all\]/i matches at position k
BracketIgnoreAllAt(text, k) ==
    /\ At(text, k) = "["
    /\ Lower(At(text, k + 1)) = "promptier-ignore-all"
    /\ At(text, k + 2) = "]"

\* the ids captured by
\* /<!--\s*promptier-ignore\s+([\w-]+(?:\s*,\s*[\w-]+)*)\s*-->/gi at position k
XmlIgnoreAt(text, k) ==
    LET word == SkipSpaces(text, k + 1)
        list == IdList(text, SkipSpaces(text, word + 1))
    IN  IF /\ At(text, k) = "<!--"
           /\ Lower(At(text, word)) = "promptier-ignore"
           /\ IsSpace(At(text, word + 1))
           /\ list.ok
           /\ At(text, SkipSpaces(text, list.next)) = "-->"
        THEN list.ids ELSE {}

\* the ids captured by
\* /\[promptier-ignore:\s*([\w-]+(?:\s*,\s*[\w-]+)*)\]/gi at position k
BracketIgnoreAt(text, k) ==
    LET list == IdList(text, SkipSpaces(text, k + 3))
    IN  IF /\ At(text, k) = "["
           /\ Lower(At(text, k + 1)) = "promptier-ignore"
           /\ At(text, k + 2) = ":"
           /\ list.ok
           /\ At(text, list.next) = "]"
        THEN list.ids ELSE {}

\* MUTANT of ParseIgnoredRules: the XML-style directives are not read
ParseIgnoredRulesBracketOnly(text) ==
    IF \E k \in 1..Len(text) : BracketIgnoreAllAt(text, k)
    THEN {"*"}
    ELSE UNION {BracketIgnoreAt(text, k) : k \in 1..Len(text)}

ParseIgnoredRules(text) ==
    IF \E k \in 1..Len(text) :
          XmlIgnoreAllAt(text, k) \/ BracketIgnoreAllAt(text, k)
    THEN {"*"}
    ELSE UNION {XmlIgnoreAt(text, k) \cup BracketIgnoreAt(text, k) :
                    k \in 1..Len(text)}

(***************************************************************************)
(* The heuristic rules (part_010)                                          *)
(***************************************************************************)
\* A LintWarning.  `message` names the message template, `subject` and
\* `args` the strings and numbers interpolated into it; position.start is
\* -1 when the finding has no position.
NoPosition == [start |-> -1, end |-> -1, line |-> 0, column |-> 0]

Warning(id, category, severity, message, subject, args, position) ==
    [id |-> id, category |-> category, severity |-> severity,
     message |-> message, subject |-> subject, args |-> args,
     position |-> position]

\* getPosition: the line and column of an offset, counted as getLineColumn
GetPosition(text, offset) == ScanLineColumn(text, offset, 1, 0, 1, 1)

PositionAt(text, start, length) ==
    [start |-> start, end |-> start + length,
     line |-> GetPosition(text, start).line,
     column |-> GetPosition(text, start).column]

\* the content of a SectionConfig as the rules read it: '' for a generator
ContentOf(section) ==
    IF section.content.kind = "function" THEN <<>> ELSE section.content.text

\* modelId.startsWith
ModelFamily(modelId) ==
    CASE modelId = "gpt-4o" -> "gpt"
      [] modelId = "claude-sonnet-4-20250514" -> "claude"
      [] OTHER -> "other"

\* Number.prototype.toLocaleString for a count: the digits in groups of
\* three, a separator between the groups
RECURSIVE ToLocaleString(_)
ToLocaleString(n) ==
    IF n < 1000 THEN <<n>>
    ELSE ToLocaleString(n \div 1000) \o <<",", n % 1000>>

\* MUTANT of TokenLimitExceeded: a prompt that fills the window exactly is
\* reported as well
TokenLimitExceededInclusive(ctx) ==
    IF ctx.tokenCount >= ctx.modelConfig.contextWindow
    THEN <<Warning("token-limit-exceeded", "token-budget", "error",
                   "exceeds context window", <<>>,
                   <<ToLocaleString(ctx.tokenCount),
                     ToLocaleString(ctx.modelConfig.contextWindow)>>,
                   NoPosition)>>
    ELSE <<>>

\* tokenLimitExceeded.check (part_010 27-39); args are the two numbers the
\* message is written with
TokenLimitExceeded(ctx) ==
    IF ctx.tokenCount > ctx.modelConfig.contextWindow
    THEN <<Warning("token-limit-exceeded", "token-budget", "error",
                   "exceeds context window", <<>>,
                   <<ToLocaleString(ctx.tokenCount),
                     ToLocaleString(ctx.modelConfig.contextWindow)>>,
                   NoPosition)>>
    ELSE <<>>

\* tokenLimitWarning.check (part_010 53-68): the threshold and the ratio are
\* compared in percent; a threshold option that is not a number is as an
\* absent one
TokenLimitWarning(ctx) ==
    LET threshold == IF ctx.options.threshold # <<>>
                     THEN ctx.options.threshold[1] ELSE 80
    IN  IF /\ ctx.tokenCount * 100 > threshold * ctx.modelConfig.contextWindow
           /\ ctx.tokenCount <= ctx.modelConfig.contextWindow
        THEN <<Warning("token-limit-warning", "token-budget", "warning",
                       "approaching context window", <<>>, <<threshold>>,
                       NoPosition)>>
        ELSE <<>>

\* the lexeme consists of characters of [a-z0-9-] (i flag)
IsNameLexeme(l) == IsWord(l) /\ l # "user_input"

RECURSIVE NameRun(_, _)
NameRun(text, j) ==
    IF j <= Len(text) /\ IsNameLexeme(text[j]) THEN NameRun(text, j + 1) ELSE j

\* hasXmlTags: /<[a-z][a-z0-9-]*>/i
HasXmlTags(text) ==
    \E k \in 1..Len(text) :
        /\ text[k] = "<"
        /\ IsTagWord(At(text, k + 1))
        /\ At(text, NameRun(text, k + 1)) = ">"

\* hasMarkdownHeaders: /^#{1,6}\s+/m
HasMarkdownHeaders(text) ==
    \E k \in 1..Len(text) :
        /\ text[k] = "##"
        /\ (k = 1 \/ text[k - 1] = "\n")
        /\ IsSpace(At(text, k + 1))

XmlTagsWithGpt(ctx) ==
    IF ModelFamily(ctx.modelId) = "gpt" /\ HasXmlTags(ctx.text)
    THEN <<Warning("xml-tags-with-gpt", "model-mismatch", "warning",
                   "XML tags with GPT", <<>>, <<>>, NoPosition)>>
    ELSE <<>>

MarkdownWithClaude(ctx) ==
    IF /\ ModelFamily(ctx.modelId) = "claude"
       /\ HasMarkdownHeaders(ctx.text)
       /\ ~HasXmlTags(ctx.text)
    THEN <<Warning("markdown-with-claude", "model-mismatch", "info",
                   "markdown with Claude", <<>>, <<>>, NoPosition)>>
    ELSE <<>>

DynamicBeforeStatic(ctx) ==
    LET firstDynamicIdx == FirstIndex(IsNotCacheable, ctx.sections)
        lastCacheableIdx == LastIndex(IsCacheable, ctx.sections)
    IN  IF /\ firstDynamicIdx # -1
           /\ lastCacheableIdx # -1
           /\ firstDynamicIdx < lastCacheableIdx
        THEN <<Warning("dynamic-before-static", "cache-inefficiency", "warning",
                       "dynamic before static", <<>>, <<>>, NoPosition)>>
        ELSE <<>>

MissingIdentity(ctx) ==
    IF FirstIndex(IsIdentity, ctx.sections) = -1
    THEN <<Warning("missing-identity", "best-practice", "warning",
                   "no identity section", <<>>, <<>>, NoPosition)>>
    ELSE <<>>

FormatNotLast(ctx) ==
    LET formatIdx == FirstIndex(IsFormat, ctx.sections)
    IN  IF formatIdx # -1 /\ formatIdx # Len(ctx.sections) - 1
        THEN <<Warning("format-not-last", "ordering", "info",
                       "format works best at the end", <<>>, <<>>, NoPosition)>>
        ELSE <<>>

\* A lexeme with a full stop inside is three lexemes to the sentence splitter:
\* a dotted placeholder, and an ISO time, whose full stop precedes the
\* milliseconds.
RECURSIVE SplitDots(_)
SplitDots(text) ==
    IF text = <<>> THEN <<>>
    ELSE (IF Head(text) = "{{user.name}}" THEN <<"{{user", ".", "name}}">>
          ELSE IF Head(text) \in {"T0", "T1", "T2", "T3"}
          THEN <<Head(text) \o ":s", ".", Head(text) \o ":ms">>
          ELSE <<Head(text)>>) \o SplitDots(Tail(text))

\* text.split(/[.!?]+/): the pieces between the full stops; acc is the
\* piece being read
RECURSIVE SplitSentences(_, _)
SplitSentences(text, acc) ==
    IF text = <<>> THEN <<acc>>
    ELSE IF Head(text) = "."
    THEN <<acc>> \o SplitSentences(Tail(text), <<>>)
    ELSE SplitSentences(Tail(text), Append(acc, Head(text)))

TrimLower(s) == ToLowerCase(Trim(s))

IsMeaningful(s) == StrLen(s) > 20

\* the sentences seen for the second time, in the order they are seen
RECURSIVE SecondSightings(_, _)
SecondSightings(sentences, i) ==
    IF i > Len(sentences) THEN <<>>
    ELSE (IF Cardinality({j \in 1..i : sentences[j] = sentences[i]}) = 2
          THEN <<sentences[i]>> ELSE <<>>)
         \o SecondSightings(sentences, i + 1)

FindDuplicateSentences(text) ==
    SecondSightings(
        SeqFilter(IsMeaningful,
                  SeqMap(TrimLower, SplitSentences(SplitDots(text), <<>>))),
        1)

DuplicateInstructions(ctx) ==
    LET lowered == SplitDots(ToLowerCase(ctx.text))
        Finding(dup) ==
            LET firstIdx == IndexOf(lowered, dup, 0)
                secondIdx == IndexOf(lowered, dup, firstIdx + 1)
            IN  Warning("duplicate-instructions", "duplication", "warning",
                        "duplicate instruction", dup, <<>>,
                        IF secondIdx # -1
                        THEN PositionAt(ctx.text, secondIdx, StrLen(dup))
                        ELSE NoPosition)
    IN  SeqMap(Finding, FindDuplicateSentences(ctx.text))

\* findUserInputMarker: the rank of the first pattern of the list that the
\* lexeme matches, 0 when it matches none
MarkerRank(l) ==
    CASE l = "{{user.name}}" -> 1
      [] l = "user_input" -> 3
      [] OTHER -> 0

FindUserInputMarker(text) ==
    LET ranks == {MarkerRank(text[k]) : k \in 1..Len(text)} \ {0}
        rank == CHOOSE r \in ranks : \A q \in ranks : r <= q
        hits == {k \in 1..Len(text) : MarkerRank(text[k]) = rank}
        at == CHOOSE k \in hits : \A j \in hits : k <= j
    IN  IF ranks = {} THEN [found |-> FALSE, match |-> <<>>, index |-> -1]
        ELSE [found |-> TRUE, match |-> <<text[at]>>,
              index |-> CharOffset(text, at)]

RECURSIVE UserInputFindings(_, _)
UserInputFindings(ctx, sections) ==
    IF sections = <<>> THEN <<>>
    ELSE LET section == Head(sections)
             content == ContentOf(section)
             markerMatch == FindUserInputMarker(content)
             contentStart == IndexOf(ctx.text, content, 0)
             absoluteOffset ==
                 IF contentStart # -1 THEN contentStart + markerMatch.index
                 ELSE -1
         IN  (IF section.type # "context" /\ markerMatch.found
              THEN <<Warning("user-input-in-system", "security", "error",
                             "potential user input",
                             <<section.type>> \o markerMatch.match, <<>>,
                             IF absoluteOffset # -1
                             THEN PositionAt(ctx.text, absoluteOffset,
                                             StrLen(markerMatch.match))
                             ELSE NoPosition)>>
              ELSE <<>>)
             \o UserInputFindings(ctx, Tail(sections))

UserInputInSystem(ctx) == UserInputFindings(ctx, ctx.sections)

RECURSIVE EmptyFindings(_)
EmptyFindings(sections) ==
    IF sections = <<>> THEN <<>>
    ELSE (IF /\ Head(sections).content.kind # "function"
             /\ Trim(ContentOf(Head(sections))) = <<>>
          THEN <<Warning("empty-sections", "best-practice", "warning",
                         "empty section", <<Head(sections).type>>, <<>>,
                         NoPosition)>>
          ELSE <<>>)
         \o EmptyFindings(Tail(sections))

EmptySections(ctx) == EmptyFindings(ctx.sections)

\* the lexeme matches \w+; the texts of the model have such a lexeme, or
\* none, after "always" and "never"
IsPlainWord(l) ==
    l \in {"a", "b", "c", "concise", "detailed", "always", "never", "my",
           "rule", "identity", "format", "constraints", "context", "notes"}

\* the capture of /word\s+(\w+(?:\s+\w+)?)/ at position k, <<>> without match
CaptureAfter(text, word, k) ==
    LET first == SkipSpaces(text, k + 1)
        second == SkipSpaces(text, first + 1)
    IN  IF text[k] = word /\ first > k + 1 /\ IsPlainWord(At(text, first))
        THEN IF second > first + 1 /\ IsPlainWord(At(text, second))
             THEN SubSeq(text, first, second) ELSE <<text[first]>>
        ELSE <<>>

\* new Set([...matches].map(m => m[1])), in insertion order
RECURSIVE Captures(_, _, _, _)
Captures(text, word, k, acc) ==
    IF k > Len(text) THEN acc
    ELSE LET action == CaptureAfter(text, word, k)
         IN  Captures(text, word, k + 1,
                      IF action = <<>> \/ \E j \in 1..Len(acc) : acc[j] = action
                      THEN acc ELSE Append(acc, action))

ConflictingPatterns(ctx) ==
    LET text == ToLowerCase(ctx.text)
        alwaysActions == Captures(text, "always", 1, <<>>)
        neverActions == Captures(text, "never", 1, <<>>)
        IsConflict(action) ==
            \E j \in 1..Len(neverActions) : neverActions[j] = action
        Finding(action) ==
            Warning("conflicting-patterns", "contradiction", "warning",
                    "always and never", action, <<>>, NoPosition)
    IN  SeqMap(Finding, SeqFilter(IsConflict, alwaysActions))
        \o (IF Includes(text, "concise") /\ Includes(text, "detailed")
            THEN <<Warning("conflicting-patterns", "contradiction", "info",
                           "concise and detailed", <<>>, <<>>, NoPosition)>>
            ELSE <<>>)

\* A LintRule; `check` names its check function.
Rule(id, category, defaultSeverity, check) ==
    [id |-> id, category |-> category, defaultSeverity |-> defaultSeverity,
     check |-> check]

heuristicRules ==
    << Rule("token-limit-exceeded", "token-budget", "error", "tokenLimitExceeded"),
       Rule("token-limit-warning", "token-budget", "warning", "tokenLimitWarning"),
       Rule("xml-tags-with-gpt", "model-mismatch", "warning", "xmlTagsWithGpt"),
       Rule("markdown-with-claude", "model-mismatch", "info", "markdownWithClaude"),
       Rule("dynamic-before-static", "cache-inefficiency", "warning",
            "dynamicBeforeStatic"),
       Rule("missing-identity", "best-practice", "warning", "missingIdentity"),
       Rule("format-not-last", "ordering", "info", "formatNotLast"),
       Rule("duplicate-instructions", "duplication", "warning",
            "duplicateInstructions"),
       Rule("user-input-in-system", "security", "error", "userInputInSystem"),
       Rule("empty-sections", "best-practice", "warning", "emptySections"),
       Rule("conflicting-patterns", "contradiction", "warning",
            "conflictingPatterns") >>

\* Custom rules, as defineRule declares them: one that always reports a
\* finding at a severity of its own, one whose id has a character outside
\* [\w-], one that takes the id of a built-in rule, one whose check may throw.
customCheck == Rule("custom-check", "best-practice", "warning", "customCheck")
dottedRule == Rule("my.rule", "best-practice", "info", "dottedRule")
shadowIdentity == Rule("missing-identity", "best-practice", "info", "shadowIdentity")
flakyRule == Rule("flaky", "best-practice", "warning", "flakyRule")

\* What an awaited rule.check(ctx) does: return findings, or throw (reject).
Returned(warnings) == [threw |-> FALSE, warnings |-> warnings]
Threw == [threw |-> TRUE, warnings |-> <<>>]

CustomFinding(id, severity) ==
    Warning(id, "best-practice", severity, "custom finding", <<>>, <<>>,
            NoPosition)

CheckOutcomes(rule, ctx) ==
    CASE rule.check = "tokenLimitExceeded" -> {Returned(TokenLimitExceeded(ctx))}
      [] rule.check = "tokenLimitWarning" -> {Returned(TokenLimitWarning(ctx))}
      [] rule.check = "xmlTagsWithGpt" -> {Returned(XmlTagsWithGpt(ctx))}
      [] rule.check = "markdownWithClaude" -> {Returned(MarkdownWithClaude(ctx))}
      [] rule.check = "dynamicBeforeStatic" -> {Returned(DynamicBeforeStatic(ctx))}
      [] rule.check = "missingIdentity" -> {Returned(MissingIdentity(ctx))}
      [] rule.check = "formatNotLast" -> {Returned(FormatNotLast(ctx))}
      [] rule.check = "duplicateInstructions" ->
            {Returned(DuplicateInstructions(ctx))}
      [] rule.check = "userInputInSystem" -> {Returned(UserInputInSystem(ctx))}
      [] rule.check = "emptySections" -> {Returned(EmptySections(ctx))}
      [] rule.check = "conflictingPatterns" -> {Returned(ConflictingPatterns(ctx))}
      [] rule.check = "customCheck" ->
            {Returned(<<CustomFinding("custom-check", "error")>>)}
      [] rule.check = "dottedRule" ->
            {Returned(<<CustomFinding("my.rule", "warning")>>)}
      [] rule.check = "shadowIdentity" ->
            {Returned(<<CustomFinding("missing-identity", "info")>>)}
      [] rule.check = "flakyRule" ->
            {Threw, Returned(<<CustomFinding("flaky", "info")>>)}

(***************************************************************************)
(* Linter (packages/lint/src/linter.ts)                                    *)
(***************************************************************************)
\* RuleOptions: threshold is <<>> when absent, <<percent>> when given
NoRuleOptions == [threshold |-> <<>>]

\* A RuleConfig: a severity, or the array [severity, options]
Severity(severity) ==
    [isArray |-> FALSE, severity |-> severity, options |-> NoRuleOptions]

WithOptions(severity, options) ==
    [isArray |-> TRUE, severity |-> severity, options |-> options]

\* parseRuleConfig: `options` is undefined unless the config is an array
ParseRuleConfig(config) ==
    IF config.isArray
    THEN [severity |-> config.severity, hasOptions |-> TRUE,
          options |-> config.options]
    ELSE [severity |-> config.severity, hasOptions |-> FALSE,
          options |-> NoRuleOptions]

\* MUTANT of MapSet: the entry of a known key is deleted and the rule
\* appended
MapSetMovedToEnd(registry, rule) ==
    Append(SelectSeq(registry, LAMBDA r : r.id # rule.id), rule)

\* Map.prototype.set on this.rules: a known key keeps its place
MapSet(registry, rule) ==
    IF \E k \in 1..Len(registry) : registry[k].id = rule.id
    THEN [k \in 1..Len(registry) |->
            IF registry[k].id = rule.id THEN rule ELSE registry[k]]
    ELSE Append(registry, rule)

\* MUTANT of ConfigSet: an entry that is present is kept
ConfigSetIfAbsent(configs, ruleId, config) == configs @@ (ruleId :> config)

\* Map.prototype.set on this.ruleConfig
ConfigSet(configs, ruleId, config) == (ruleId :> config) @@ configs

\* config.rules?.[rule.id] ?? rule.defaultSeverity
ConfiguredOrDefault(configRules, rule) ==
    IF rule.id \in DOMAIN configRules THEN configRules[rule.id]
    ELSE Severity(rule.defaultSeverity)

\* constructor, lines 248-265: the rules of `list` registered in order
RECURSIVE Register(_, _, _)
Register(linter, list, configRules) ==
    IF list = <<>> THEN linter
    ELSE Register(
            [rules |-> MapSet(linter.rules, Head(list)),
             ruleConfig |-> ConfigSet(linter.ruleConfig, Head(list).id,
                                      ConfiguredOrDefault(configRules, Head(list)))],
            Tail(list), configRules)

NoRules == [id \in {} |-> Severity("off")]

\* no addRule call is remembered
NotAdded ==
    [made |-> FALSE, rule |-> Rule("", "", "", ""), omitted |-> FALSE,
     replaced |-> ""]

\* new Linter(config)
Constructor(config) ==
    LET registered ==
            Register(Register([rules |-> <<>>, ruleConfig |-> NoRules],
                              heuristicRules, config.rules),
                     config.custom, config.rules)
    IN  [rules |-> registered.rules,
         ruleConfig |-> config.rules @@ registered.ruleConfig]

\* parseRuleConfig(this.ruleConfig.get(ruleId)).severity; '' when the map
\* has no entry
ConfiguredSeverity(configs, ruleId) ==
    IF ruleId \in DOMAIN configs THEN ParseRuleConfig(configs[ruleId]).severity
    ELSE ""

\* MUTANT of IsSkipped: the inline directives are not looked at
IsSkippedByConfigOnly(configs, ignored, ruleId) ==
    \/ ruleId \notin DOMAIN configs
    \/ ConfiguredSeverity(configs, ruleId) \in {"", "off"}

\* lint, lines 312-319: the loop passes over the rule without invoking it
IsSkipped(configs, ignored, ruleId) ==
    \/ ruleId \notin DOMAIN configs
    \/ ConfiguredSeverity(configs, ruleId) \in {"", "off"}
    \/ "*" \in ignored
    \/ ruleId \in ignored

\* MUTANT of ApplySeverity: the finding keeps the severity its rule gave it
ApplySeverityKept(warning, severity) == warning

\* lint, lines 332-341: `warning.severity = severity`
ApplySeverity(warning, severity) ==
    IF severity \in {"error", "warning", "info"}
    THEN [warning EXCEPT !.severity = severity]
    ELSE warning

\* lint, lines 325-327: the context handed to the rule
RuleContext(ctx, parsed) ==
    IF parsed.hasOptions THEN [ctx EXCEPT !.options = parsed.options] ELSE ctx

\* MUTANT of OnCheckOutcome: the error of a check is not caught
OnCheckOutcomeRethrow(found, severity, outcome) ==
    IF outcome.threw
    THEN [allWarnings |-> found, rethrown |-> TRUE]
    ELSE [allWarnings |->
            found \o [k \in 1..Len(outcome.warnings) |->
                        ApplySeverity(outcome.warnings[k], severity)],
          rethrown |-> FALSE]

\* lint, lines 323-345: what the loop body does with the settled check;
\* `rethrown` says whether the error leaves lint
OnCheckOutcome(found, severity, outcome) ==
    IF outcome.threw
    THEN [allWarnings |-> found, rethrown |-> FALSE]
    ELSE [allWarnings |->
            found \o [k \in 1..Len(outcome.warnings) |->
                        ApplySeverity(outcome.warnings[k], severity)],
          rethrown |-> FALSE]

\* MUTANT of HasSeverity: the error findings are listed under every severity
HasSeverityOrError(found, severity) ==
    LET Test(w) == w.severity = severity \/ w.severity = "error"
    IN  SeqFilter(Test, found)

\* lint, lines 349-351: allWarnings.filter((w) => w.severity === severity)
HasSeverity(found, severity) ==
    LET Test(w) == w.severity = severity
    IN  SeqFilter(Test, found)

\* MUTANT of LintResultOf: the error findings are reported as warnings and a
\* provider call is counted for every run
LintResultOfMiscounted(found, checked, calls) ==
    [status |-> "resolved", error |-> Undefined,
     passed |-> TRUE,
     errors |-> <<>>,
     warnings |-> HasSeverity(found, "error") \o HasSeverity(found, "warning"),
     info |-> HasSeverity(found, "info"),
     stats |-> [rulesChecked |-> checked, llmCalls |-> calls + 1]]

\* MUTANT of LintResultOf: the counter of checked rules is kept by the
\* linter from one call to the next instead of being a local of lint
LintResultOfCarried(found, checked, calls) ==
    [status |-> "resolved", error |-> Undefined,
     passed |-> HasSeverity(found, "error") = <<>>,
     errors |-> HasSeverity(found, "error"),
     warnings |-> HasSeverity(found, "warning"),
     info |-> HasSeverity(found, "info"),
     stats |-> [rulesChecked |-> checked + baseline.result.stats.rulesChecked,
                llmCalls |-> calls]]

\* lint, lines 349-363; timeMs, the wall-clock time of the run, is left out
LintResultOf(found, checked, calls) ==
    [status |-> "resolved", error |-> Undefined,
     passed |-> HasSeverity(found, "error") = <<>>,
     errors |-> HasSeverity(found, "error"),
     warnings |-> HasSeverity(found, "warning"),
     info |-> HasSeverity(found, "info"),
     stats |-> [rulesChecked |-> checked, llmCalls |-> calls]]

\* MUTANT of LintRejected: a failed render is reported as a result without
\* findings
LintRejectedAsResult(error) == LintResultOf(<<>>, 0, 0)

\* lint rejects with the error of the render: there is no LintResult
LintRejected(error) ==
    [status |-> "rejected", error |-> error, passed |-> FALSE, errors |-> <<>>,
     warnings |-> <<>>, info |-> <<>>,
     stats |-> [rulesChecked |-> 0, llmCalls |-> 0]]

LintPending ==
    [status |-> "pending", error |-> Undefined, passed |-> FALSE,
     errors |-> <<>>, warnings |-> <<>>, info |-> <<>>,
     stats |-> [rulesChecked |-> 0, llmCalls |-> 0]]

\* Prompt.render awaited as one step: the outcomes of resolveSections for the
\* sections after those of `acc`, one per way the generators can settle
RECURSIVE ResolveOutcomes(_, _, _)
ResolveOutcomes(p, ctx, acc) ==
    IF Len(acc) = Len(p.sections)
    THEN {[ok |-> TRUE, sections |-> acc, error |-> Undefined]}
    ELSE LET section == p.sections[Len(acc) + 1]
         IN  IF ~IsDynamic(section)
             THEN ResolveOutcomes(p, ctx,
                    Append(acc, RenderedSection(section, Len(acc),
                                    ResolveStatic(section.content, ctx))))
             ELSE UNION {
                    IF outcome.ok
                    THEN ResolveOutcomes(p, ctx,
                            Append(acc, RenderedSection(section, Len(acc),
                                                        outcome.text)))
                    ELSE {[ok |-> FALSE, sections |-> <<>>,
                           error |-> outcome.error]} :
                    outcome \in GeneratorOutcomes(section.content.gen)}

RenderOutcomes(p, ctx, t) ==
    {IF r.ok THEN Compile(p, r.sections) ELSE Rejected(r.error) :
        r \in ResolveOutcomes(p, EnrichContext(ctx, p, t), <<>>)}

\* render(): the context defaults to {}
EmptyContext == [topic |-> <<>>, user |-> <<>>]

\* getModelConfig(prompt.model).supportsCaching
SupportsCaching(model) == ModelFamily(model) = "claude"

\* lint, lines 293-305
LintContextOf(p, rendered) ==
    [text |-> rendered.text, sections |-> p.sections, modelId |-> p.model,
     modelConfig |-> [contextWindow |-> ContextWindow(p.model),
                      preferredFormat |-> PreferredFormat(p.model),
                      supportsCaching |-> SupportsCaching(p.model)],
     tokenCount |-> rendered.meta.tokenCount,
     options |-> NoRuleOptions]

NoLintContext ==
    [text |-> <<>>, sections |-> <<>>, modelId |-> Undefined,
     modelConfig |-> [contextWindow |-> 0, preferredFormat |-> "plain",
                      supportsCaching |-> FALSE],
     tokenCount |-> 0, options |-> NoRuleOptions]

(***************************************************************************)
(* The linter configurations, calls and prompts of the model               *)
(***************************************************************************)
MaxOps == 2

\* LlmConfig; `client` says how its provider answers a generate call
NoLlm == [enabled |-> FALSE, client |-> "none"]

LinterConfigs ==
    { [rules |-> NoRules, custom |-> <<>>, llm |-> NoLlm],
      [rules |-> ("missing-identity" :> Severity("error"))
                 @@ ("token-limit-warning" :>
                        WithOptions("warning", [threshold |-> <<50>>]))
                 @@ ("custom-check" :> Severity("info")),
       custom |-> <<customCheck, dottedRule>>, llm |-> NoLlm],
      [rules |-> ("user-input-in-system" :> Severity("error")),
       custom |-> <<>>, llm |-> [enabled |-> TRUE, client |-> "reachable"]],
      [rules |-> ("conflicting-patterns" :> Severity("off")),
       custom |-> <<flakyRule>>,
       llm |-> [enabled |-> TRUE, client |-> "unreachable"]] }

\* the arguments of the addRule calls: <<>> is an omitted severity
AddRuleCalls ==
    { [rule |-> customCheck, severity |-> <<>>],
      [rule |-> customCheck, severity |-> <<Severity("error")>>],
      [rule |-> dottedRule, severity |-> <<>>],
      [rule |-> shadowIdentity, severity |-> <<>>],
      [rule |-> flakyRule, severity |-> <<>>] }

ConfigureRuleCalls ==
    { [ruleId |-> "missing-identity", severity |-> Severity("error")],
      [ruleId |-> "conflicting-patterns", severity |-> Severity("error")],
      [ruleId |-> "user-input-in-system", severity |-> Severity("info")],
      [ruleId |-> "custom-check", severity |-> Severity("off")] }

DisableRuleCalls == {"missing-identity", "user-input-in-system"}

Literal(type, text) == SectionCreate(type, StringContent(text), NoOptions)

RawOptions == [DefaultOptions EXCEPT !.formatForModel = FALSE]

LintPrompts ==
    { \* nothing to report
      Compose("clean", "claude-sonnet-4-20250514",
              <<Literal("identity", <<"a">>)>>, DefaultOptions),
      \* no identity, a user input marker
      Compose("marker", "gpt-4o",
              <<Literal("constraints", <<"{{user.name}}">>)>>, DefaultOptions),
      \* <!-- promptier-ignore missing-identity -->
      Compose("xml-ignore", "claude-sonnet-4-20250514",
              <<Literal("constraints",
                        <<"<!--", " ", "promptier-ignore", " ",
                          "missing-identity", " ", "-->">>)>>,
              DefaultOptions),
      \* [promptier-ignore: custom-check, missing-identity] in a format
      \* section that is not the last one
      Compose("bracket-ignore", "gpt-4o",
              <<Literal("format",
                        <<"[", "promptier-ignore", ":", " ", "custom-check",
                          ",", " ", "missing-identity", "]">>),
                Literal("constraints", <<"concise", " ", "detailed">>)>>,
              DefaultOptions),
      \* <!-- PROMPTIER-IGNORE missing-identity, my.rule -->
      Compose("dotted-ignore", "claude-sonnet-4-20250514",
              <<Literal("constraints",
                        <<"<!--", " ", "PROMPTIER-IGNORE", " ",
                          "missing-identity", ",", " ", "my", ".", "rule",
                          " ", "-->">>)>>,
              DefaultOptions),
      \* [Promptier-Ignore-All]
      Compose("bracket-ignore-all", "tiny",
              <<Literal("constraints", <<"[", "Promptier-Ignore-All", "]">>),
                Literal("domain", <<"{{user.name}}">>)>>,
              DefaultOptions),
      \* <!--promptier-ignore-all-->
      Compose("xml-ignore-all", "claude-sonnet-4-20250514",
              <<Literal("constraints",
                        <<"<!--", "promptier-ignore-all", "-->">>)>>,
              DefaultOptions),
      \* close to the context window of the model
      Compose("near-limit", "tiny",
              <<Literal("identity", <<"LONG">>)>>, DefaultOptions),
      \* over the context window, with a repeated sentence
      Compose("over-limit", "tiny",
              <<Literal("identity",
                        <<"LONG", ".", " ", "LONG", ".", " ", "LONG">>)>>,
              DefaultOptions),
      \* a generator before a literal
      Compose("dynamic", "claude-sonnet-4-20250514",
              <<SectionContext(DynamicContent("g1"), NoOptions),
                Literal("identity", <<"a">>)>>,
              DefaultOptions),
      \* markdown given to Claude unformatted, "always a" and "never a", an
      \* empty section
      Compose("raw", "claude-sonnet-4-20250514",
              <<Literal("identity",
                        <<"##", " ", "a", "\n", "always", " ", "a", ".", " ",
                          "never", " ", "a">>),
                Literal("domain", <<" ">>)>>,
              RawOptions),
      \* the time of the render in a sentence written twice
      Compose("stamped", "claude-sonnet-4-20250514",
              <<Literal("identity",
                        <<"a", " ", "{{$now}}", ".", " ", "a", " ",
                          "{{$now}}">>)>>,
              RawOptions) }

(***************************************************************************)
(* A Linter and its calls: lint is a process with one step per awaited     *)
(* rule check; the registry is changed between lint calls                  *)
(***************************************************************************)
\* no lint call has resolved on the Linter yet
NoBaseline ==
    [status |-> "none", prompt |-> Undefined, result |-> LintPending,
     rules |-> <<>>, ruleConfig |-> <<>>, others |-> FALSE]

\* no render call is followed on its own while a Linter is observed
RenderQuiet ==
    /\ prompt = Compose("agent", "claude-sonnet-4-20250514", <<>>, DefaultOptions)
    /\ context = EmptyContext
    /\ enriched = EnrichContext(EmptyContext, prompt, 0)
    /\ rpc = "idle"
    /\ resolved = <<>>
    /\ invoked = <<>>
    /\ compiled = NotSettled
    /\ previous = NotSettled
    /\ renders = 0
    /\ now = 0

NoRun ==
    /\ lpc = "idle"
    /\ linted = Compose("agent", "claude-sonnet-4-20250514", <<>>, DefaultOptions)
    /\ lintContext = NoLintContext
    /\ ignoredRules = {}
    /\ cursor = 1
    /\ allWarnings = <<>>
    /\ checks = <<>>
    /\ rulesChecked = 0
    /\ llmCalls = 0
    /\ generateCalls = 0
    /\ lintResult = LintPending
    /\ baseline = NoBaseline

\* no parseSemanticResponse call is followed
ParserQuiet ==
    /\ raw = <<>>
    /\ ppc = "idle"
    /\ attempts = <<>>
    /\ parsedWarnings = <<>>

\* no SourceMap is observed
NotRestored ==
    [made |-> FALSE, from |-> NewSourceMap("agent"), map |-> NewSourceMap("agent")]

MapQuiet ==
    /\ original = NewSourceMap("agent")
    /\ restored = NotRestored

\* no PromptBuilder is observed
NothingObserved == [op |-> "none", prompt |-> 0, result |-> Undefined]

BuilderQuiet ==
    /\ arrays = <<>>
    /\ optionObjects = <<>>
    /\ builder = NewBuilder("agent")
    /\ built = <<>>
    /\ observed = NothingObserved

LintInit ==
    /\ RenderQuiet
    /\ ParserQuiet
    /\ MapQuiet
    /\ BuilderQuiet
    /\ \E config \in LinterConfigs :
        /\ rules = Constructor(config).rules
        /\ ruleConfig = Constructor(config).ruleConfig
        /\ llmConfig = config.llm
    /\ ops = 0
    /\ lastAdded = NotAdded
    /\ NoRun

\* the registry changes between lint calls: the settled call is left behind
DropRun ==
    /\ lpc' = "idle"
    /\ linted' = Compose("agent", "claude-sonnet-4-20250514", <<>>, DefaultOptions)
    /\ lintContext' = NoLintContext
    /\ ignoredRules' = {}
    /\ cursor' = 1
    /\ allWarnings' = <<>>
    /\ checks' = <<>>
    /\ rulesChecked' = 0
    /\ llmCalls' = 0
    /\ generateCalls' = 0
    /\ lintResult' = LintPending
    /\ baseline' = [NoBaseline EXCEPT !.status = "dropped"]

\* addRule(rule, severity?)
AddRuleWith(call) ==
    /\ lpc # "running"
    /\ ops < MaxOps
    /\ rules' = MapSet(rules, call.rule)
    /\ ruleConfig' = ConfigSet(ruleConfig, call.rule.id,
                               OrElse(call.severity,
                                      Severity(call.rule.defaultSeverity)))
    /\ ops' = ops + 1
    /\ DropRun
    /\ UNCHANGED <<llmConfig, renderVars, parserVars, mapVars, builderVars>>

AddRule ==
    \E call \in AddRuleCalls : AddRuleWith(call) /\ UNCHANGED lastAdded

\* configureRule(ruleId, severity)
ConfigureRuleWith(call) ==
    /\ lpc # "running"
    /\ ops < MaxOps
    /\ ruleConfig' = ConfigSet(ruleConfig, call.ruleId, call.severity)
    /\ ops' = ops + 1
    /\ DropRun
    /\ UNCHANGED <<rules, llmConfig, renderVars, parserVars, mapVars, builderVars>>

ConfigureRule ==
    \E call \in ConfigureRuleCalls :
        ConfigureRuleWith(call) /\ UNCHANGED lastAdded

\* disableRule(ruleId)
DisableRuleWith(ruleId) ==
    /\ lpc # "running"
    /\ ops < MaxOps
    /\ ruleConfig' = ConfigSet(ruleConfig, ruleId, Severity("off"))
    /\ ops' = ops + 1
    /\ DropRun
    /\ UNCHANGED <<rules, llmConfig, renderVars, parserVars, mapVars, builderVars>>

DisableRule ==
    \E ruleId \in DisableRuleCalls :
        DisableRuleWith(ruleId) /\ UNCHANGED lastAdded

\* no literal of the prompt asks for the time of the render
Unstamped(p) ==
    \A k \in 1..Len(p.sections) :
        ~Includes(p.sections[k].content.text, "{{$now}}")

\* the readings of the clock that can tell two renders of the prompt apart:
\* $now reaches the text only through a {{$now}} placeholder
ClockReadings(p) == IF Unstamped(p) THEN {0} ELSE 0..MaxClock

\* the lint calls: a prompt, and one way its render can settle
LintCalls ==
    UNION { UNION { { [prompt |-> p, rendered |-> rendered] :
                        rendered \in RenderOutcomes(p, EmptyContext, t) } :
                    t \in ClockReadings(p) } :
            p \in LintPrompts }

\* lint(prompt), lines 281-309: the render is awaited and reads the clock;
\* lint rejects when the render does, and has the context and the ignored
\* ids otherwise
LintStart ==
    /\ lpc # "running"
    /\ \E call \in LintCalls :
       LET p == call.prompt
           rendered == call.rendered
       IN
        /\ linted' = p
        /\ baseline' = IF baseline.status = "kept" /\ p.name # baseline.prompt
                       THEN [baseline EXCEPT !.others = TRUE] ELSE baseline
        /\ IF rendered.status = "rejected"
           THEN /\ lpc' = "rejected"
                /\ lintResult' = LintRejected(rendered.error)
                /\ lintContext' = NoLintContext
                /\ ignoredRules' = {}
           ELSE /\ lpc' = "running"
                /\ lintResult' = LintPending
                /\ lintContext' = LintContextOf(p, rendered)
                /\ ignoredRules' = ParseIgnoredRules(rendered.text)
    /\ cursor' = 1
    /\ allWarnings' = <<>>
    /\ checks' = <<>>
    /\ rulesChecked' = 0
    /\ llmCalls' = 0
    /\ generateCalls' = 0
    /\ UNCHANGED <<renderVars, parserVars, mapVars, builderVars, linterVars>>

\* lines 311-319: the next rule of the registry is passed over
SkipRule ==
    /\ lpc = "running"
    /\ cursor <= Len(rules)
    /\ IsSkipped(ruleConfig, ignoredRules, rules[cursor].id)
    /\ cursor' = cursor + 1
    /\ UNCHANGED <<renderVars, parserVars, mapVars, builderVars, linterVars, lpc, linted, lintContext,
                   ignoredRules, allWarnings, checks, rulesChecked, llmCalls,
                   generateCalls, lintResult, baseline>>

\* lines 321-345: the check of the next rule is invoked and awaited
CheckRule ==
    /\ lpc = "running"
    /\ cursor <= Len(rules)
    /\ ~IsSkipped(ruleConfig, ignoredRules, rules[cursor].id)
    /\ LET rule == rules[cursor]
           parsed == ParseRuleConfig(ruleConfig[rule.id])
       IN  \E outcome \in CheckOutcomes(rule, RuleContext(lintContext, parsed)) :
            LET after == OnCheckOutcome(allWarnings, parsed.severity, outcome)
            IN  /\ allWarnings' = after.allWarnings
                /\ checks' = Append(checks,
                        [rule |-> rule.id, check |-> rule.check,
                         severity |-> parsed.severity,
                         threw |-> outcome.threw,
                         returned |-> outcome.warnings,
                         first |-> Len(allWarnings) + 1])
                /\ IF after.rethrown
                   THEN /\ lpc' = "rejected"
                        /\ lintResult' = LintRejected(rule.id)
                   ELSE UNCHANGED <<lpc, lintResult>>
    /\ rulesChecked' = rulesChecked + 1
    /\ cursor' = cursor + 1
    /\ UNCHANGED <<renderVars, parserVars, mapVars, builderVars, linterVars,
                   linted, lintContext, ignoredRules, llmCalls, generateCalls,
                   baseline>>

\* lines 348-363: the loop is over and lint resolves
LintFinish ==
    /\ lpc = "running"
    /\ cursor > Len(rules)
    /\ lintResult' = LintResultOf(allWarnings, rulesChecked, llmCalls)
    /\ lpc' = "resolved"
    /\ baseline' = IF baseline.status = "none"
                   THEN [status |-> "kept", prompt |-> linted.name,
                         result |-> lintResult', rules |-> rules,
                         ruleConfig |-> ruleConfig, others |-> FALSE]
                   ELSE baseline
    /\ UNCHANGED <<renderVars, parserVars, mapVars, builderVars, linterVars,
                   linted, lintContext, ignoredRules, cursor, allWarnings,
                   checks, rulesChecked, llmCalls, generateCalls>>

LintNext ==
    \/ AddRule
    \/ ConfigureRule
    \/ DisableRule
    \/ LintStart
    \/ SkipRule
    \/ CheckRule
    \/ LintFinish

SpecLint == LintInit /\ [][LintNext]_vars

\* no Linter is observed while the render calls on a Prompt are followed
LinterQuiet ==
    /\ rules = <<>>
    /\ ruleConfig = NoRules
    /\ llmConfig = NoLlm
    /\ ops = 0
    /\ lastAdded = NotAdded
    /\ NoRun

\* the calls of render on a Prompt, followed on their own
RenderOnly == RenderInit /\ LinterQuiet /\ ParserQuiet /\ MapQuiet /\ BuilderQuiet

SpecRender == RenderOnly /\ [][RenderNext]_vars

(***************************************************************************)
(* Claims about Linter.lint                                                *)
(***************************************************************************)
\* the findings that the k-th invoked check added to the aggregate
FindingsOf(k) ==
    [i \in 1..Len(checks[k].returned) |-> allWarnings[checks[k].first + i - 1]]

\* the findings of `found` that carry the severity, in order
Only(found, severity) == SelectSeq(found, LAMBDA w : w.severity = severity)

\* the findings of the invoked checks whose rule was run at the severity
AggregatedAt(severity, k) ==
    IF k > Len(checks) THEN <<>>
    ELSE IF checks[k].severity = severity THEN FindingsOf(k) ELSE <<>>

RECURSIVE FindingsAt(_, _)
FindingsAt(severity, k) ==
    IF k > Len(checks) THEN <<>>
    ELSE AggregatedAt(severity, k) \o FindingsAt(severity, k + 1)

\* the ids of the rules whose check threw in this run
Failed == {checks[k].rule : k \in {j \in 1..Len(checks) : checks[j].threw}}

\* What a run reports when the rules named in `removed` are left out and the
\* rules named in `failed` return an empty list: the findings of every other
\* registered rule that is not 'off', at the rule's configured severity, in
\* registry order.
RECURSIVE ExpectedFindings(_, _, _, _, _)
ExpectedFindings(registry, configs, ctx, removed, failed) ==
    IF registry = <<>> THEN <<>>
    ELSE LET rule == Head(registry)
             parsed == ParseRuleConfig(configs[rule.id])
             outcome == CHOOSE o \in CheckOutcomes(rule, RuleContext(ctx, parsed)) :
                            ~o.threw
         IN  (IF \/ ConfiguredSeverity(configs, rule.id) \in {"", "off"}
                 \/ rule.id \in removed
                 \/ rule.id \in failed
              THEN <<>>
              ELSE [k \in 1..Len(outcome.warnings) |->
                        [outcome.warnings[k] EXCEPT !.severity = parsed.severity]])
             \o ExpectedFindings(Tail(registry), configs, ctx, removed, failed)

\* C1: every finding a rule returns is reported with the severity configured
\* for that rule when it is run, whatever severity the rule put on it, and the
\* result holds it in the bucket of that severity and in no other.
C1_ConfiguredSeverityReported ==
    /\ lpc = "running" =>
        \A k \in 1..Len(checks) :
            checks[k].severity = ConfiguredSeverity(ruleConfig, checks[k].rule)
    /\ \A k \in 1..Len(checks) : \A i \in 1..Len(checks[k].returned) :
        FindingsOf(k)[i] =
            [checks[k].returned[i] EXCEPT !.severity = checks[k].severity]
    /\ lpc = "resolved" =>
        /\ lintResult.errors = FindingsAt("error", 1)
        /\ lintResult.warnings = FindingsAt("warning", 1)
        /\ lintResult.info = FindingsAt("info", 1)

\* missing-identity, configured 'error', returned a 'warning' finding that the
\* result holds under errors
C1_Witness ==
    /\ lpc = "resolved"
    /\ \E k \in 1..Len(checks) :
        /\ checks[k].rule = "missing-identity"
        /\ checks[k].severity = "error"
        /\ checks[k].returned # <<>>
        /\ checks[k].returned[1].severity = "warning"
        /\ \E j \in 1..Len(lintResult.errors) :
            lintResult.errors[j] = FindingsOf(k)[1]

\* C2: a rule check that throws does not make lint reject; the rule
\* contributes no finding, and the findings of the run are those of the other
\* enabled rules, as if the failing rule had returned an empty list.
C2_ThrowingRuleIsIsolated ==
    Failed # {} =>
        /\ lpc # "rejected"
        /\ lpc = "resolved" =>
            /\ lintResult.status = "resolved"
            /\ allWarnings =
                ExpectedFindings(rules, ruleConfig, lintContext, ignoredRules,
                                 Failed)
            /\ lintResult.errors = Only(allWarnings, "error")
            /\ lintResult.warnings = Only(allWarnings, "warning")
            /\ lintResult.info = Only(allWarnings, "info")

\* a check threw, and a rule registered after it was still run and reported
C2_Witness ==
    /\ lpc = "resolved"
    /\ \E k, j \in 1..Len(checks) :
        /\ checks[k].threw
        /\ k < j
        /\ checks[j].returned # <<>>
        /\ \E i \in 1..Len(checks) : i < k /\ checks[i].returned # <<>>

\* What a reader of the rendered text takes an ignore directive to list: the
\* runs of characters between the blanks and commas that follow the keyword,
\* whatever characters they are made of.
RECURSIVE WrittenRun(_, _)
WrittenRun(text, j) ==
    IF j > Len(text) \/ text[j] \in {" ", "\n", ",", "-->", "]"}
    THEN [lexemes |-> <<>>, next |-> j]
    ELSE LET rest == WrittenRun(text, j + 1)
         IN  [lexemes |-> <<text[j]>> \o rest.lexemes, next |-> rest.next]

RECURSIVE WrittenList(_, _)
WrittenList(text, j) ==
    LET run == WrittenRun(text, j)
        comma == SkipSpaces(text, run.next)
        more == WrittenList(text, SkipSpaces(text, comma + 1))
    IN  IF run.lexemes = <<>> THEN [ok |-> FALSE, ids |-> {}, next |-> j]
        ELSE IF At(text, comma) = "," /\ more.ok
        THEN [ok |-> TRUE, ids |-> {run.lexemes} \cup more.ids, next |-> more.next]
        ELSE [ok |-> TRUE, ids |-> {run.lexemes}, next |-> run.next]

WrittenXmlAt(text, k) ==
    LET word == SkipSpaces(text, k + 1)
        list == WrittenList(text, SkipSpaces(text, word + 1))
    IN  IF /\ At(text, k) = "<!--"
           /\ Lower(At(text, word)) = "promptier-ignore"
           /\ IsSpace(At(text, word + 1))
           /\ list.ok
           /\ At(text, SkipSpaces(text, list.next)) = "-->"
        THEN list.ids ELSE {}

WrittenBracketAt(text, k) ==
    LET list == WrittenList(text, SkipSpaces(text, k + 3))
    IN  IF /\ At(text, k) = "["
           /\ Lower(At(text, k + 1)) = "promptier-ignore"
           /\ At(text, k + 2) = ":"
           /\ list.ok
           /\ At(text, list.next) = "]"
        THEN list.ids ELSE {}

\* the directives of the text, each the set of the ids it lists
Directives(text) ==
    {WrittenXmlAt(text, k) \cup WrittenBracketAt(text, k) : k \in 1..Len(text)}
        \ {{}}

RECURSIVE Concat(_)
Concat(lexemes) ==
    IF lexemes = <<>> THEN "" ELSE Head(lexemes) \o Concat(Tail(lexemes))

\* the rule ids named by some directive of the text
NamedIds(text) == {Concat(id) : id \in UNION Directives(text)}

\* the id consists of letters, digits, underscores and hyphens
IsWordId(id) == \A k \in 1..Len(id) : IsWord(id[k])

\* the rule ids named by the directives that list such ids only
WellFormedNamedIds(text) ==
    {Concat(id) :
        id \in UNION {d \in Directives(text) : \A other \in d : IsWordId(other)}}

\* an ignore-all directive, in either syntax and any letter case
IgnoreAllWritten(text) ==
    \E k \in 1..Len(text) :
        /\ Lower(text[k]) = "promptier-ignore-all"
        /\ \/ At(text, k - 1) = "[" /\ At(text, k + 1) = "]"
           \/ /\ \E j \in 1..(k - 1) :
                    text[j] = "<!--" /\ SkipSpaces(text, j + 1) = k
              /\ At(text, SkipSpaces(text, k + 1)) = "-->"

NothingReported ==
    /\ lintResult.errors = <<>>
    /\ lintResult.warnings = <<>>
    /\ lintResult.info = <<>>

\* C3 as stated: a directive naming any rule id R removes exactly the
\* findings of the rules named, and ignore-all removes everything.
C3_Original ==
    lpc = "resolved" =>
        IF IgnoreAllWritten(lintContext.text) THEN NothingReported
        ELSE allWarnings =
                ExpectedFindings(rules, ruleConfig, lintContext,
                                 NamedIds(lintContext.text), Failed)

\* C3, amended: in a rendered text without an ignore-all directive, the
\* findings removed are exactly those of the rules listed in a directive all
\* of whose ids consist of letters, digits, underscores and hyphens, and the
\* findings of every other rule are unchanged; a directive listing an id with
\* another character is not recognised and removes nothing.  An ignore-all
\* directive, in either syntax and any letter case, empties errors, warnings
\* and info, also for rules added after the linter was constructed.
C3_IgnoreRemovesNamedRules ==
    lpc = "resolved" =>
        IF IgnoreAllWritten(lintContext.text) THEN NothingReported
        ELSE allWarnings =
                ExpectedFindings(rules, ruleConfig, lintContext,
                                 WellFormedNamedIds(lintContext.text), Failed)

\* a directive removed the findings of the rule it names and the findings of
\* another rule are reported
C3_Witness ==
    /\ lpc = "resolved"
    /\ ~IgnoreAllWritten(lintContext.text)
    /\ WellFormedNamedIds(lintContext.text) # {}
    /\ allWarnings # <<>>
    /\ Len(allWarnings)
        < Len(ExpectedFindings(rules, ruleConfig, lintContext, {}, Failed))

\* semantic analysis is asked for by the configuration of the linter
SemanticEnabled == llmConfig.enabled \/ llmConfig.client # "none"

HeuristicChecks == {heuristicRules[k].check : k \in 1..Len(heuristicRules)}

\* the error findings that the built-in rules contributed to this run
HeuristicErrors ==
    {<<k, i>> \in (1..Len(checks)) \X (1..Len(allWarnings)) :
        /\ checks[k].check \in HeuristicChecks
        /\ i <= Len(checks[k].returned)
        /\ FindingsOf(k)[i].severity = "error"}

\* C4 as stated: with semantic analysis enabled and no heuristic error, a run
\* makes exactly one generate call and reports llmCalls = 1; without semantic
\* analysis it makes none and reports 0.
C4_Original ==
    lpc = "resolved" =>
        /\ (SemanticEnabled /\ HeuristicErrors = {}) =>
                generateCalls = 1 /\ lintResult.stats.llmCalls = 1
        /\ ~SemanticEnabled =>
                generateCalls = 0 /\ lintResult.stats.llmCalls = 0

\* C5: with semantic analysis enabled and an error finding of a heuristic
\* rule in the run, no generate call is made, llmCalls is 0 and the heuristic
\* errors are reported under errors.
C5_NoCallAfterHeuristicErrors ==
    (lpc = "resolved" /\ SemanticEnabled /\ HeuristicErrors # {}) =>
        /\ generateCalls = 0
        /\ lintResult.stats.llmCalls = 0
        /\ ~lintResult.passed
        /\ \A e \in HeuristicErrors :
            \E j \in 1..Len(lintResult.errors) :
                lintResult.errors[j] = FindingsOf(e[1])[e[2]]

\* a run with semantic analysis enabled in which user-input-in-system
\* reported an error
C5_Witness ==
    /\ lpc = "resolved"
    /\ SemanticEnabled
    /\ \E e \in HeuristicErrors : checks[e[1]].rule = "user-input-in-system"

\* C6 as stated: with semantic analysis enabled and a provider that fails,
\* lint resolves and the result holds exactly one 'semantic-unavailable'
\* finding, at severity info.
C6_Original ==
    (lpc = "resolved" /\ llmConfig.enabled /\ llmConfig.client = "unreachable") =>
        /\ Cardinality({j \in 1..Len(lintResult.info) :
                            lintResult.info[j].id = "semantic-unavailable"}) = 1
        /\ \A j \in 1..Len(lintResult.errors) :
                lintResult.errors[j].id # "semantic-unavailable"
        /\ \A j \in 1..Len(lintResult.warnings) :
                lintResult.warnings[j].id # "semantic-unavailable"

(***************************************************************************)
(* parseSemanticResponse (packages/lint/src/rules/semantic/parser.ts).     *)
(* The answer of the model is a string of lexemes.  A lexeme in braces     *)
(* stands for one JSON object literal, whose members ObjectLiteral gives.  *)
(* A JSON value is a record [type, text, fields, items].                   *)
(***************************************************************************)
MaxItems == 2

\* a member of a parsed object: absent, or a primitive
Absent == [type |-> "undefined", text |-> ""]
Str(t) == [type |-> "string", text |-> t]
Num(t) == [type |-> "number", text |-> t]

\* interface RawFinding
RawFinding(id, severity, message, suggestion, evidence) ==
    [id |-> id, severity |-> severity, message |-> message,
     suggestion |-> suggestion, evidence |-> evidence]

NoFields == RawFinding(Absent, Absent, Absent, Absent, Absent)

JsonNull == [type |-> "null", text |-> "", fields |-> NoFields, items |-> <<>>]
JsonNumber(t) == [type |-> "number", text |-> t, fields |-> NoFields, items |-> <<>>]
JsonString(t) == [type |-> "string", text |-> t, fields |-> NoFields, items |-> <<>>]
JsonObject(f) == [type |-> "object", text |-> "", fields |-> f, items |-> <<>>]
JsonArray(its) == [type |-> "array", text |-> "", fields |-> NoFields, items |-> its]

ObjectLexemes ==
    {"{ambiguity}", "{verbosity}", "{unknown}", "{constructor}", "{empty-id}",
     "{no-message}", "{numeric}", "{}"}

ObjectLiteral(l) ==
    CASE l = "{ambiguity}" ->
            RawFinding(Str("semantic-ambiguity"), Str("warning"), Str("Vague"),
                       Str("Be specific"), Absent)
      [] l = "{verbosity}" ->
            RawFinding(Str("semantic-verbosity"), Absent, Str("Redundant"),
                       Absent, Str("very very"))
      [] l = "{unknown}" ->
            RawFinding(Str("semantic-tone"), Str("fatal"), Str("Harsh"),
                       Num("1"), Absent)
      [] l = "{constructor}" ->
            RawFinding(Str("constructor"), Str("error"), Str("Odd"), Absent, Absent)
      [] l = "{empty-id}" ->
            RawFinding(Str(""), Str("error"), Str("Nameless"), Absent, Absent)
      [] l = "{no-message}" ->
            RawFinding(Str("semantic-ambiguity"), Str("error"), Absent, Absent, Absent)
      [] l = "{numeric}" ->
            RawFinding(Num("7"), Num("2"), Num("0"), Absent, Absent)
      [] OTHER -> NoFields

NumberLexemes == {"42"}
StringLexemes == {"\"note\""}

\* JSON.parse, at position j: a value (list FALSE) or the elements of an
\* array up to its closing bracket (list TRUE), and the position after it
RECURSIVE ParseAt(_, _, _)
ParseAt(text, j, list) ==
    LET l == At(text, j)
        first == SkipSpaces(text, j + 1)
        v == ParseAt(text, j, FALSE)
        sep == SkipSpaces(text, v.next)
        Value(value, next) ==
            [ok |-> TRUE, value |-> value, items |-> <<>>, next |-> next]
        Items(items, next) ==
            [ok |-> TRUE, value |-> JsonNull, items |-> items, next |-> next]
        SyntaxError ==
            [ok |-> FALSE, value |-> JsonNull, items |-> <<>>, next |-> j]
    IN  IF list
        THEN IF ~v.ok THEN SyntaxError
             ELSE IF At(text, sep) = "]" THEN Items(<<v.value>>, sep + 1)
             ELSE IF At(text, sep) = ","
             THEN LET rest == ParseAt(text, SkipSpaces(text, sep + 1), TRUE)
                  IN  IF rest.ok
                      THEN Items(<<v.value>> \o rest.items, rest.next)
                      ELSE SyntaxError
             ELSE SyntaxError
        ELSE IF l = "null" THEN Value(JsonNull, j + 1)
        ELSE IF l \in NumberLexemes THEN Value(JsonNumber(l), j + 1)
        ELSE IF l \in StringLexemes THEN Value(JsonString(l), j + 1)
        ELSE IF l \in ObjectLexemes
        THEN Value(JsonObject(ObjectLiteral(l)), j + 1)
        ELSE IF l = "[" /\ At(text, first) = "]"
        THEN Value(JsonArray(<<>>), first + 1)
        ELSE IF l = "["
        THEN LET elements == ParseAt(text, first, TRUE)
             IN  IF elements.ok
                 THEN Value(JsonArray(elements.items), elements.next)
                 ELSE SyntaxError
        ELSE SyntaxError

\* JSON.parse(text): the value, or a SyntaxError
JsonParse(text) ==
    LET v == ParseAt(text, SkipSpaces(text, 1), FALSE)
    IN  IF v.ok /\ SkipSpaces(text, v.next) > Len(text)
        THEN [ok |-> TRUE, value |-> v.value]
        ELSE [ok |-> FALSE, value |-> JsonNull]

\* the lexeme of three backquotes, the mark of a code fence
FenceMark == "<fence>"

\* the positions of a lexeme in a text
Positions(text, l) == {k \in 1..Len(text) : text[k] = l}

First(S) == CHOOSE k \in S : \A j \in S : k <= j
Last(S) == CHOOSE k \in S : \A j \in S : k >= j

\* trimmed.match(/<fence>(?:json)?\s*([\s\S]*?)<fence>/): the first capture group
FenceMatch(trimmed) ==
    LET opens == Positions(trimmed, FenceMark)
        open == First(opens)
        tag == IF At(trimmed, open + 1) = "json" THEN open + 2 ELSE open + 1
        start == SkipSpaces(trimmed, tag)
        closes == {k \in opens : k >= start}
    IN  IF opens = {} \/ closes = {} THEN [matched |-> FALSE, group |-> <<>>]
        ELSE [matched |-> TRUE,
              group |-> SubSeq(trimmed, start, First(closes) - 1)]

\* trimmed.slice(firstBracket, lastBracket + 1), when the guard of
\* strategy 3 holds
BracketSlice(trimmed) ==
    LET firsts == Positions(trimmed, "[")
        lasts == Positions(trimmed, "]")
    IN  IF firsts # {} /\ lasts # {} /\ Last(lasts) > First(firsts)
        THEN [found |-> TRUE,
              slice |-> SubSeq(trimmed, First(firsts), Last(lasts))]
        ELSE [found |-> FALSE, slice |-> <<>>]

\* the record of one JSON.parse call of tryParse: what it parsed, and
\* whether its SyntaxError left tryParse
Outcome(strategy, text, parsed, caught) ==
    [strategy |-> strategy, text |-> text, parsed |-> parsed.ok,
     value |-> parsed.value, thrown |-> ~parsed.ok /\ ~caught]

\* try { return JSON.parse(text) } catch { continue }
AttemptUncaught(strategy, text) == Outcome(strategy, text, JsonParse(text), FALSE)

Attempt(strategy, text) == Outcome(strategy, text, JsonParse(text), TRUE)

\* the last JSON.parse call returned, or threw out of tryParse
Settled(tried) == tried[Len(tried)].parsed \/ tried[Len(tried)].thrown

\* tryParse, strategy 3: first [ to last ]
Strategy3(trimmed, tried) ==
    IF BracketSlice(trimmed).found
    THEN tried \o <<Attempt("bracket", BracketSlice(trimmed).slice)>>
    ELSE tried

AfterStrategy2(trimmed, tried) ==
    IF Settled(tried) THEN tried ELSE Strategy3(trimmed, tried)

\* tryParse, strategy 2: extract from markdown fences
Strategy2(trimmed, tried) ==
    IF FenceMatch(trimmed).matched
    THEN AfterStrategy2(trimmed,
            tried \o <<Attempt("fence", Trim(FenceMatch(trimmed).group))>>)
    ELSE Strategy3(trimmed, tried)

AfterStrategy1(trimmed, tried) ==
    IF Settled(tried) THEN tried ELSE Strategy2(trimmed, tried)

\* tryParse, strategy 1: direct JSON.parse
Strategy1(trimmed) == AfterStrategy1(trimmed, <<Attempt("direct", trimmed)>>)

\* tryParse: the JSON.parse calls made, in order; the last one decides
TryParseAttempts(text) == Strategy1(Trim(text))

\* what tryParse returns after these calls: the parsed value, or null
ReturnedValue(tried) ==
    IF tried[Len(tried)].parsed THEN tried[Len(tried)].value ELSE JsonNull

TryParse(text) == ReturnedValue(TryParseAttempts(text))

\* const CATEGORY_MAP
CATEGORY_MAP ==
    [id \in {"semantic-contradiction", "semantic-ambiguity",
             "semantic-injection-risk", "semantic-verbosity",
             "semantic-missing-practice", "semantic-scope-creep"} |->
        CASE id = "semantic-contradiction" -> "contradiction"
          [] id = "semantic-ambiguity" -> "ambiguity"
          [] id = "semantic-injection-risk" -> "security"
          [] id = "semantic-verbosity" -> "token-budget"
          [] OTHER -> "best-practice"]

\* CATEGORY_MAP is an object literal, so a property read also finds what
\* the object inherits from Object.prototype
ObjectPrototypeMembers ==
    {"constructor", "toString", "toLocaleString", "valueOf", "hasOwnProperty",
     "isPrototypeOf", "propertyIsEnumerable", "__proto__"}

\* CATEGORY_MAP[id]
CategoryMapGet(id) ==
    IF id \in DOMAIN CATEGORY_MAP THEN CATEGORY_MAP[id]
    ELSE IF id \in ObjectPrototypeMembers THEN "Object.prototype." \o id
    ELSE Undefined

VALID_SEVERITIES == {"error", "warning", "info"}

SemanticWarning(id, category, severity, message, suggestion, evidence) ==
    [id |-> id, category |-> category, severity |-> severity,
     message |-> message, suggestion |-> suggestion, evidence |-> evidence]

ParseErrorWarning ==
    SemanticWarning("semantic-parse-error", "best-practice", "info",
        "LLM linter returned unparseable response. Raw output available in debug mode.",
        Undefined, Undefined)

StringOr(member, default) ==
    IF member.type = "string" THEN member.text ELSE default

\* the body of the loop over the parsed array: the warnings pushed for item
WarningsOfItem(item) ==
    LET id == StringOr(item.fields.id, Undefined)
        message == StringOr(item.fields.message, Undefined)
        severity ==
            IF /\ item.fields.severity.type = "string"
               /\ item.fields.severity.text \in VALID_SEVERITIES
            THEN item.fields.severity.text ELSE "info"
        category ==
            IF CategoryMapGet(id) # Undefined THEN CategoryMapGet(id)
            ELSE "best-practice"
    IN  IF item.type \notin {"object", "array"} THEN <<>>
        ELSE IF id \in {Undefined, ""} \/ message \in {Undefined, ""} THEN <<>>
        ELSE <<SemanticWarning(id, category, severity, message,
                               StringOr(item.fields.suggestion, Undefined),
                               StringOr(item.fields.evidence, Undefined))>>

RECURSIVE WarningsOfItems(_)
WarningsOfItems(items) ==
    IF items = <<>> THEN <<>>
    ELSE WarningsOfItem(Head(items)) \o WarningsOfItems(Tail(items))

\* parseSemanticResponse after tryParse
WarningsOfParsed(parsed) ==
    IF parsed = JsonNull THEN <<ParseErrorWarning>>
    ELSE IF parsed.type # "array" THEN <<ParseErrorWarning>>
    ELSE WarningsOfItems(parsed.items)

ParseSemanticResponse(text) == WarningsOfParsed(TryParse(text))

(***************************************************************************)
(* The answers parseSemanticResponse is called with                        *)
(***************************************************************************)
\* the texts of the entries of an answered array
EntryTexts ==
    {<<l>> : l \in ObjectLexemes \cup NumberLexemes \cup StringLexemes \cup {"null"}}
        \cup {<<"[", "{ambiguity}", "]">>}

ArrayText(entries) == <<"[">> \o Join(entries, <<",", " ">>) \o <<"]">>

\* what the model answers with: an array, or something else
Bodies ==
    {ArrayText(entries) : entries \in SeqsUpTo(EntryTexts, MaxItems)}
        \cup {<<"{ambiguity}">>, <<"null">>, <<"Sorry">>, <<>>,
              <<"[", "{ambiguity}">>, <<"[", "{ambiguity}", ",", "]">>}

\* what the model puts around it
Wrappings(body) ==
    {body,
     <<"\n">> \o body \o <<" ", "\n">>,
     <<FenceMark, "json", "\n">> \o body \o <<"\n", FenceMark>>,
     <<FenceMark>> \o body \o <<FenceMark, " ", "Done">>,
     <<FenceMark, "JSON", "\n">> \o body \o <<"\n", FenceMark>>,
     <<FenceMark, "json", "\n">> \o body,
     <<"Here", ":", " ">> \o body \o <<" ", "Done">>,
     <<"Here", " ">> \o body \o <<" ", "]">>,
     <<"[", "Here", "]", " ", FenceMark, "json">> \o body \o <<FenceMark>>,
     <<FenceMark, "Sorry", FenceMark, " ">> \o body}

Responses == UNION {Wrappings(body) : body \in Bodies}

(***************************************************************************)
(* One call of parseSemanticResponse                                       *)
(***************************************************************************)
ParseInit ==
    /\ raw \in Responses
    /\ ppc = "called"
    /\ attempts = <<>>
    /\ parsedWarnings = <<>>

\* the call runs to its return, or to the exception that leaves it
ParseSemanticResponseCall ==
    /\ ppc = "called"
    /\ attempts' = TryParseAttempts(raw)
    /\ IF \E k \in 1..Len(attempts') : attempts'[k].thrown
       THEN ppc' = "threw" /\ parsedWarnings' = <<>>
       ELSE ppc' = "returned" /\ parsedWarnings' = ParseSemanticResponse(raw)
    /\ UNCHANGED <<raw, renderVars, linterVars, runVars, mapVars, builderVars>>

ParseNext == ParseSemanticResponseCall

\* a call of parseSemanticResponse, followed on its own
ParseOnly == ParseInit /\ RenderQuiet /\ LinterQuiet /\ MapQuiet /\ BuilderQuiet

SpecParse == ParseOnly /\ [][ParseNext]_vars

(***************************************************************************)
(* Claims about parseSemanticResponse                                      *)
(***************************************************************************)
\* the text between the first two code fence marks of a text, without a
\* "json" tag that follows the first mark
FirstFenceContent(text) ==
    LET marks == Positions(text, FenceMark)
        open == First(marks)
        close == First(marks \ {open})
        from == IF At(text, open + 1) = "json" THEN open + 2 ELSE open + 1
    IN  SubSeq(text, from, close - 1)

HasFence(text) == Cardinality(Positions(text, FenceMark)) >= 2

\* the text from the first '[' to the last ']'
FirstToLastBracket(text) ==
    SubSeq(text, First(Positions(text, "[")), Last(Positions(text, "]")))

HasBrackets(text) ==
    /\ Positions(text, "[") # {}
    /\ Positions(text, "]") # {}
    /\ First(Positions(text, "[")) < Last(Positions(text, "]"))

\* the texts parseSemanticResponse is to try, in order
Candidates(text) ==
    <<[strategy |-> "direct", text |-> Trim(text)]>>
        \o (IF HasFence(text)
            THEN <<[strategy |-> "fence",
                    text |-> Trim(FirstFenceContent(Trim(text)))]>>
            ELSE <<>>)
        \o (IF HasBrackets(text)
            THEN <<[strategy |-> "bracket",
                    text |-> FirstToLastBracket(text)]>>
            ELSE <<>>)

IsParseError(found) ==
    /\ Len(found) = 1
    /\ found[1].id = "semantic-parse-error"
    /\ found[1].severity = "info"

\* C7: the call never throws; the texts it parses are the trimmed text, the
\* content of the first code fence and the span from the first '[' to the
\* last ']', in this order and up to the first one that parses; when none
\* parses, or the value parsed is not an array, it returns exactly one
\* finding, 'semantic-parse-error' at severity info.
C7_ParseNeverThrows ==
    /\ ppc # "threw"
    /\ ppc = "returned" =>
        LET tried == Len(attempts)
        IN  /\ tried \in 1..Len(Candidates(raw))
            /\ \A k \in 1..tried :
                /\ attempts[k].strategy = Candidates(raw)[k].strategy
                /\ attempts[k].text = Candidates(raw)[k].text
                /\ attempts[k].parsed = JsonParse(Candidates(raw)[k].text).ok
                /\ k < tried => ~attempts[k].parsed
            /\ ~attempts[tried].parsed => tried = Len(Candidates(raw))
            /\ (~attempts[tried].parsed \/ attempts[tried].value.type # "array")
                    => IsParseError(parsedWarnings)

\* no attempt parsed the answer: a fenced text followed by an array with a
\* trailing comma
C7_Witness ==
    /\ ppc = "returned"
    /\ Len(attempts) = 3
    /\ \A k \in 1..3 : ~attempts[k].parsed
    /\ IsParseError(parsedWarnings)

\* the array that the call parsed
ParsedArray == attempts[Len(attempts)].value.items

IsKeptEntry(entry) ==
    /\ entry.type = "object"
    /\ entry.fields.id.type = "string" /\ entry.fields.id.text # ""
    /\ entry.fields.message.type = "string" /\ entry.fields.message.text # ""

\* the severity and the category that the claim gives to an entry
ClaimedSeverity(entry) ==
    IF entry.fields.severity \in {Str("error"), Str("warning"), Str("info")}
    THEN entry.fields.severity.text ELSE "info"

ClaimedCategory(entry) ==
    IF entry.fields.id.text \in DOMAIN CATEGORY_MAP
    THEN CATEGORY_MAP[entry.fields.id.text] ELSE "best-practice"

\* C8 as stated: for a parsed array the call returns, in input order, one
\* finding for exactly the entries that are objects with a non-empty string
\* id and message; its severity is the entry's when that is error, warning
\* or info and 'info' otherwise; its category is the table's value for the
\* id, or 'best-practice' for an id not in the table.
C8_Original ==
    (/\ ppc = "returned"
     /\ attempts[Len(attempts)].parsed
     /\ attempts[Len(attempts)].value.type = "array") =>
        LET kept == SeqFilter(IsKeptEntry, ParsedArray)
        IN  /\ Len(parsedWarnings) = Len(kept)
            /\ \A k \in 1..Len(kept) :
                /\ parsedWarnings[k].id = kept[k].fields.id.text
                /\ parsedWarnings[k].message = kept[k].fields.message.text
                /\ parsedWarnings[k].severity = ClaimedSeverity(kept[k])
                /\ parsedWarnings[k].category = ClaimedCategory(kept[k])

(***************************************************************************)
(* Claims about the provenance of a render                                 *)
(***************************************************************************)
\* the sections of the settled render, in rendered order
Ordered == compiled.ordered

\* the mappings recorded for the section at position k of the rendered order
MappingsOf(k) ==
    {n \in 1..Len(Mappings) : Mappings[n].source.sectionIndex = k - 1}

\* the formatter writes the resolved text of the section as it is: nothing
\* is trimmed off it, or no formatter is applied
WrittenVerbatim(section) ==
    \/ prompt.options.formatForModel = FALSE
    \/ Trim(section.content) = section.content

\* sections i and j of the rendered order, i before j, resolve to one text
SameText(i, j) ==
    /\ i \in 1..Len(Ordered)
    /\ j \in 1..Len(Ordered)
    /\ i < j
    /\ Ordered[i].content = Ordered[j].content

\* each of the two sections has one mapping, and the mapping of the first
\* starts before the mapping of the second
OwnOrderedMappings(i, j) ==
    /\ Cardinality(MappingsOf(i)) = 1
    /\ Cardinality(MappingsOf(j)) = 1
    /\ \A m \in MappingsOf(i) : \A n \in MappingsOf(j) :
        /\ m # n
        /\ Mappings[m].output.start < Mappings[n].output.start

MaxMappings == 2
\* the offsets a caller gives to the add operations
MapOffsets == 0..2

MapTexts == {<<>>, <<"a", "b">>, <<"\n", "b">>}

\* the ranges a caller asks for: the non-empty ones and the empty one at 0
MapRanges ==
    {r \in [outputStart : MapOffsets, outputEnd : MapOffsets] :
        r.outputStart < r.outputEnd \/ r = [outputStart |-> 0, outputEnd |-> 0]}

MapInit ==
    /\ RenderQuiet
    /\ LinterQuiet
    /\ ParserQuiet
    /\ BuilderQuiet
    /\ original = NewSourceMap("agent")
    /\ restored = [made |-> FALSE, from |-> NewSourceMap("agent"),
                   map |-> NewSourceMap("agent")]

MapFrame ==
    UNCHANGED <<restored, renderVars, linterVars, runVars, parserVars,
                builderVars>>

\* S.setRenderedText(text); the caller gives S its text once
SetRenderedTextCall ==
    /\ original.renderedText = <<>>
    /\ \E text \in MapTexts \ {<<>>} :
        original' = SetRenderedText(original, text)
    /\ MapFrame

\* addMapping with a mapping object of the caller
AddMappingCall ==
    /\ Len(original.mappings) < MaxMappings
    /\ \E r \in MapRanges :
        original' = AddMapping(original,
            [output |-> [start |-> r.outputStart, end |-> r.outputEnd,
                         line |-> 1, column |-> 1],
             source |-> [type |-> "fragment", sectionType |-> "tone",
                         sectionIndex |-> 0, fragmentId |-> "safety"]])
    /\ MapFrame

AddFragmentMappingCall ==
    /\ Len(original.mappings) < MaxMappings
    /\ \E r \in MapRanges :
        original' = AddFragmentMapping(original,
            [outputStart |-> r.outputStart, outputEnd |-> r.outputEnd,
             sectionType |-> "identity", sectionIndex |-> 0,
             fragmentId |-> "tone", fragmentVersion |-> "1.0.0",
             sourceFile |-> Undefined, sourceLine |-> Undefined])
    /\ MapFrame

AddDynamicMappingCall ==
    /\ Len(original.mappings) < MaxMappings
    /\ \E r \in MapRanges :
        original' = AddDynamicMapping(original,
            [outputStart |-> r.outputStart, outputEnd |-> r.outputEnd,
             sectionType |-> "context", sectionIndex |-> 1,
             dynamicKey |-> "user"])
    /\ MapFrame

AddLiteralMappingCall ==
    /\ Len(original.mappings) < MaxMappings
    /\ \E r \in MapRanges :
        original' = AddLiteralMapping(original, r.outputStart, r.outputEnd,
                                      "constraints", 1)
    /\ MapFrame

AddGeneratedMappingCall ==
    /\ Len(original.mappings) < MaxMappings
    /\ \E r \in MapRanges :
        original' = AddGeneratedMapping(original, r.outputStart, r.outputEnd,
                                        "format", 1)
    /\ MapFrame

\* T = SourceMap.fromJSON(S.toJSON()); one round trip is followed
RoundTrip ==
    /\ ~restored.made
    /\ restored' = [made |-> TRUE, from |-> original,
                    map |-> FromJSON(ToJSON(original))]
    /\ UNCHANGED <<original, renderVars, linterVars, runVars, parserVars,
                   builderVars>>

\* T.setRenderedText(text) with the text S was filled for, as the blame
\* command does after fromJSON (part_003 53-55)
SetRestoredTextCall ==
    /\ restored.made
    /\ restored.map.renderedText # restored.from.renderedText
    /\ restored' = [restored EXCEPT
                        !.map = SetRenderedText(@, restored.from.renderedText)]
    /\ UNCHANGED <<original, renderVars, linterVars, runVars, parserVars,
                   builderVars>>

MapNext ==
    \/ SetRenderedTextCall
    \/ AddMappingCall
    \/ AddFragmentMappingCall
    \/ AddDynamicMappingCall
    \/ AddLiteralMappingCall
    \/ AddGeneratedMappingCall
    \/ RoundTrip
    \/ SetRestoredTextCall

SpecMap == MapInit /\ [][MapNext]_vars

(***************************************************************************)
(* Claims about the queries of a SourceMap                                 *)
(***************************************************************************)

\* the offsets and positions the queries are asked at
QueryOffsets == MapOffsets \cup {3}
QueryLines == 1..3
QueryColumns == 1..3
QueryFragmentIds == {"tone", "safety", "absent", Undefined}

\* C12 as stated: for every offset in [start, end) of a mapping m,
\* originAtOffset returns the origin of m, and null for an offset in no
\* mapping's range.
C12_Original ==
    \A offset \in QueryOffsets :
        /\ \A m \in Holding(original, offset) :
            OriginAtOffset(original, offset) = original.mappings[m].source
        /\ Holding(original, offset) = {} =>
            OriginAtOffset(original, offset) = Null

\* C12 (amended): for every SourceMap and every offset, originAtOffset
\* returns the origin of the first mapping, in the order the mappings were
\* added, whose range [start, end) holds the offset; it returns null exactly
\* when no mapping's range holds the offset.
C12_FirstHoldingMappingAnswers ==
    \A offset \in QueryOffsets :
        /\ \A m \in Holding(original, offset) :
            (\A j \in Holding(original, offset) : m <= j)
                => OriginAtOffset(original, offset) = original.mappings[m].source
        /\ (OriginAtOffset(original, offset) = Null)
                <=> (Holding(original, offset) = {})

\* two mappings with different origins hold one offset and the query
\* answers with the first; another offset lies in no range
C12_Witness ==
    /\ Len(original.mappings) = 2
    /\ original.mappings[1].source # original.mappings[2].source
    /\ Holding(original, 1) = {1, 2}
    /\ OriginAtOffset(original, 1) = original.mappings[1].source
    /\ OriginAtOffset(original, 2) = Null

\* S as it was when T was made from it, and T
RoundTripFrom == restored.from
RoundTripTo == restored.map

SameOriginAtOffset ==
    \A offset \in QueryOffsets :
        OriginAtOffset(RoundTripTo, offset) = OriginAtOffset(RoundTripFrom, offset)

SamePositionsFrom ==
    \A fragmentId \in QueryFragmentIds :
        PositionsFrom(RoundTripTo, fragmentId)
            = PositionsFrom(RoundTripFrom, fragmentId)

SameOriginAt(lines) ==
    \A line \in lines : \A column \in QueryColumns :
        OriginAt(RoundTripTo, line, column) = OriginAt(RoundTripFrom, line, column)

\* C13 as stated: T = SourceMap.fromJSON(S.toJSON()) holds the mappings of S
\* in the same order and answers originAtOffset, originAt and positionsFrom
\* as S does, for every argument.
C13_Original ==
    (restored.made /\ RoundTripTo.renderedText = <<>>) =>
        /\ RoundTripTo.mappings = RoundTripFrom.mappings
        /\ SameOriginAtOffset
        /\ SamePositionsFrom
        /\ SameOriginAt(QueryLines)

\* C13 (amended): T = SourceMap.fromJSON(S.toJSON()) holds the mappings of S
\* in the same order and answers originAtOffset(offset) and
\* positionsFrom(fragmentId) as S does for every argument; T does not hold
\* the rendered text of S, so originAt(line, column) answers as on S for
\* line 1, answers originAtOffset(column - 1) for every line as long as T
\* was given no text, and answers as on S for every line and column once T
\* was given the rendered text of S with setRenderedText.
C13_RoundTripKeepsMappings ==
    restored.made =>
        /\ RoundTripTo.mappings = RoundTripFrom.mappings
        /\ RoundTripTo.prompt = RoundTripFrom.prompt
        /\ SameOriginAtOffset
        /\ SamePositionsFrom
        /\ SameOriginAt({1})
        /\ RoundTripTo.renderedText = <<>> =>
            \A line \in QueryLines : \A column \in QueryColumns :
                OriginAt(RoundTripTo, line, column)
                    = OriginAtOffset(RoundTripFrom, column - 1)
        /\ RoundTripTo.renderedText = RoundTripFrom.renderedText =>
            SameOriginAt(QueryLines)

\* a table of two mappings with different fragment ids over a text of two
\* lines went through the round trip, answers a query of line 2 with an
\* origin on S, and T was given the text of S
C13_Witness ==
    /\ restored.made
    /\ Len(RoundTripFrom.mappings) = 2
    /\ PositionsFrom(RoundTripFrom, "tone") # <<>>
    /\ PositionsFrom(RoundTripFrom, "safety") # <<>>
    /\ RoundTripFrom.renderedText = <<"\n", "b">>
    /\ OriginAt(RoundTripFrom, 2, 1) # Null
    /\ RoundTripTo.renderedText = RoundTripFrom.renderedText

(***************************************************************************)
(* Claims about two renders of one prompt                                  *)
(***************************************************************************)

\* both the previous and the present call of render returned
RenderedTwice == rpc = "fulfilled" /\ previous.status = "fulfilled"

\* every section of the prompt is cacheable and none is dynamic
AllCacheableStatic ==
    \A k \in 1..Len(prompt.sections) :
        prompt.sections[k].cacheable /\ ~IsDynamic(prompt.sections[k])

\* a literal or fragment text of the prompt asks for the time of the call
ReadsTheClock ==
    \E k \in 1..Len(prompt.sections) :
        Includes(prompt.sections[k].content.text, "{{$now}}")

SameRender ==
    /\ compiled.text = previous.text
    /\ compiled.meta.sourceMap.mappings = previous.meta.sourceMap.mappings

\* C14 as stated: two renders of one prompt with one context, all sections
\* cacheable and none dynamic, give the same text and the same mappings in
\* the same order, whatever placeholders the contents hold.
C14_Original == (RenderedTwice /\ AllCacheableStatic) => SameRender

\* C14 (amended): two renders of one prompt with one context, all sections
\* cacheable and none dynamic, give the same text and the same mappings in
\* the same order for every literal or fragment content, placeholders of
\* the context included, provided no content holds a placeholder of the
\* built-in $now, which render sets to the time of the call.
C14_RepeatedRenderIsIdentical ==
    (RenderedTwice /\ AllCacheableStatic /\ ~ReadsTheClock) => SameRender

\* a fragment with placeholders was rendered twice, the clock moved between
\* the two calls, and the text holds the value substituted for a placeholder
C14_Witness ==
    /\ RenderedTwice
    /\ AllCacheableStatic
    /\ ~ReadsTheClock
    /\ now = 1
    /\ \E k \in 1..Len(prompt.sections) :
        /\ prompt.sections[k].content.kind = "fragment"
        /\ Includes(prompt.sections[k].content.text, "{{topic}}")
    /\ Includes(compiled.text, "c")
    /\ Mappings # <<>>

(***************************************************************************)
(* A PromptBuilder and the Prompts made from it, driven through their      *)
(* public operations (part_006)                                            *)
(***************************************************************************)

\* bound of the PromptBuilder state machine: the Prompts made
MaxBuilt == 2

\* the sections the builder methods and extend/override are called with
BuilderSections ==
    { SectionCreate("identity", StringContent(<<"a">>), NoOptions),
      SectionCreate("format", StringContent(<<"b">>), NoOptions) }

BuilderModels == {"claude-sonnet-4-20250514", "gpt-4o"}

\* the Prompt k as its methods see it: sections and options are read
\* through the references the Prompt holds
PromptOf(k) ==
    Compose(built[k].name, built[k].model, arrays[built[k].sections],
            optionObjects[built[k].options])

\* prompt(name): a builder with an empty _sections array and _options = {}
BuildInit ==
    /\ RenderQuiet
    /\ LinterQuiet
    /\ ParserQuiet
    /\ MapQuiet
    /\ arrays = << <<>> >>
    /\ optionObjects = <<DefaultOptions>>
    /\ builder = NewBuilder("agent")
    /\ built = <<>>
    /\ observed = NothingObserved

BuildFrame == UNCHANGED <<renderVars, linterVars, runVars, parserVars, mapVars>>

\* the operation returns the builder or a new Prompt
Unobserved == observed' = NothingObserved

\* builder.model(modelId)
BuilderModelCall ==
    /\ \E modelId \in BuilderModels \ {builder.model} :
        builder' = [builder EXCEPT !.model = modelId]
    /\ UNCHANGED <<arrays, optionObjects, built>>
    /\ Unobserved
    /\ BuildFrame

\* builder.identity(...), .constraints(...), .context(...): the section is
\* pushed onto the array _sections refers to
BuilderSectionCall ==
    /\ Len(arrays[builder.sections]) < MaxSections
    /\ \E section \in BuilderSections :
        arrays' = [arrays EXCEPT ![builder.sections] = Append(@, section)]
    /\ UNCHANGED <<optionObjects, builder, built>>
    /\ Unobserved
    /\ BuildFrame

\* builder.options(opts): _options is replaced by a new merged object
BuilderOptionsCall ==
    /\ Len(optionObjects) <= MaxBuilt
    /\ \E opts \in {[formatForModel |-> FALSE]} :
        /\ MergeOptions(optionObjects[builder.options], opts)
                # optionObjects[builder.options]
        /\ optionObjects' = Append(optionObjects,
                MergeOptions(optionObjects[builder.options], opts))
    /\ builder' = [builder EXCEPT !.options = Len(optionObjects) + 1]
    /\ UNCHANGED <<arrays, built>>
    /\ Unobserved
    /\ BuildFrame

\* builder.outputFormat(format): the member is written into the object
\* _options refers to
OutputFormatCall ==
    /\ \E format \in {"plain"} :
        /\ optionObjects[builder.options].format # format
        /\ optionObjects' =
                [optionObjects EXCEPT ![builder.options].format = format]
    /\ UNCHANGED <<arrays, builder, built>>
    /\ Unobserved
    /\ BuildFrame

\* builder.build(): the Prompt is given the builder's own array and object
BuildCall ==
    /\ Len(built) < MaxBuilt
    /\ built' = Append(built,
            NewPrompt(builder.name, builder.model, builder.sections,
                      builder.options, "build", arrays[builder.sections]))
    /\ UNCHANGED <<arrays, optionObjects, builder>>
    /\ Unobserved
    /\ BuildFrame

\* prompt.extend({sections}): a new array and a new options object
ExtendCall ==
    /\ Len(built) < MaxBuilt
    /\ \E k \in 1..Len(built) :
        \E more \in {<<>>} \cup {<<section>> : section \in BuilderSections} :
            /\ arrays' = Append(arrays,
                    ExtendSections(arrays[built[k].sections], more))
            /\ optionObjects' = Append(optionObjects,
                    MergeOptions(optionObjects[built[k].options], <<>>))
            /\ built' = Append(built,
                    NewPrompt(built[k].name \o "-extended", built[k].model,
                              Len(arrays) + 1, Len(optionObjects) + 1, "extend",
                              ExtendSections(arrays[built[k].sections], more)))
    /\ UNCHANGED <<builder>>
    /\ Unobserved
    /\ BuildFrame

\* prompt.override({identity: section}): a new array, the same options object
OverrideCall ==
    /\ Len(built) < MaxBuilt
    /\ \E k \in 1..Len(built) :
        \E section \in BuilderSections :
            LET overrides == [t \in {section.type} |-> section]
            IN  /\ arrays' = Append(arrays,
                        OverrideSections(arrays[built[k].sections], overrides))
                /\ built' = Append(built,
                        NewPrompt(built[k].name, built[k].model,
                                  Len(arrays) + 1, built[k].options, "override",
                                  OverrideSections(arrays[built[k].sections],
                                                   overrides)))
    /\ UNCHANGED <<optionObjects, builder>>
    /\ Unobserved
    /\ BuildFrame

\* prompt.toConfig(): copies of the section array and of the options object
ToConfigCall ==
    /\ \E k \in 1..Len(built) :
        observed' = [op |-> "toConfig", prompt |-> k, result |-> PromptOf(k)]
    /\ UNCHANGED <<arrays, optionObjects, builder, built>>
    /\ BuildFrame

\* await prompt.render(): a whole render call with the default context
RenderBuiltCall ==
    /\ \E k \in 1..Len(built) :
        \E result \in RenderOutcomes(PromptOf(k), EmptyContext, 0) :
            observed' = [op |-> "render", prompt |-> k, result |-> result]
    /\ UNCHANGED <<arrays, optionObjects, builder, built>>
    /\ BuildFrame

\* prompt.lint(): the quick validation of the Prompt
LintBuiltCall ==
    /\ \E k \in 1..Len(built) :
        observed' = [op |-> "lint", prompt |-> k,
                     result |-> PromptLint(PromptOf(k))]
    /\ UNCHANGED <<arrays, optionObjects, builder, built>>
    /\ BuildFrame

BuildNext ==
    \/ BuilderModelCall
    \/ BuilderSectionCall
    \/ BuilderOptionsCall
    \/ OutputFormatCall
    \/ BuildCall
    \/ ExtendCall
    \/ OverrideCall
    \/ ToConfigCall
    \/ RenderBuiltCall
    \/ LintBuiltCall

SpecBuild == BuildInit /\ [][BuildNext]_vars

\* C15 as stated: once build() has returned a Prompt, no later operation
\* changes the section list of that Prompt or a field of its sections: the
\* list is at every later time the list the Prompt was made with.
C15_Original ==
    \A k \in 1..Len(built) :
        built[k].by = "build" => arrays[built[k].sections] = built[k].made

(***************************************************************************)
(* Claims about repeated lint calls on one Linter                          *)
(***************************************************************************)

\* a lint call resolved for the prompt of the first call that resolved on
\* the linter, whose registry was not changed since
LintedAgain ==
    /\ lpc = "resolved"
    /\ baseline.status = "kept"
    /\ baseline.prompt = linted.name

NonDynamic(p) == \A k \in 1..Len(p.sections) : ~IsDynamic(p.sections[k])

\* the check of the rule is a function of the context it is given
IsDeterministic(rule) ==
    \A text \in {<<>>, <<"a">>} :
        Cardinality(CheckOutcomes(rule, [NoLintContext EXCEPT !.text = text])) = 1

\* every rule the run invokes has a check that is a function of its context
InvokesDeterministicChecks ==
    \A k \in 1..Len(rules) :
        IsSkipped(ruleConfig, ignoredRules, rules[k].id) \/ IsDeterministic(rules[k])

RegistryAsLeft ==
    baseline.status = "kept" =>
        (rules = baseline.rules /\ ruleConfig = baseline.ruleConfig)

\* C16 as stated: lint leaves the registry and the configuration unchanged,
\* and linting an unchanged non-dynamic prompt again on one linter, also
\* after other prompts were linted, returns the same findings in the same
\* order.
C16_Original ==
    /\ RegistryAsLeft
    /\ (LintedAgain /\ NonDynamic(linted)) => lintResult = baseline.result

\* C16 (amended): lint leaves the registry and the configuration of the
\* linter unchanged; linting an unchanged non-dynamic prompt again on one
\* linter, also after other prompts were linted, returns the same findings
\* in the same order and the same counters when no content of the prompt
\* holds a placeholder of $now and every rule the run invokes has a check
\* that is a function of the context it is given.
C16_RepeatedLintIsIdentical ==
    /\ RegistryAsLeft
    /\ (LintedAgain /\ NonDynamic(linted) /\ Unstamped(linted)
            /\ InvokesDeterministicChecks)
        => lintResult = baseline.result

\* a prompt with findings was linted, another prompt was linted, and the
\* first prompt was linted again with the same result
C16_Witness ==
    /\ LintedAgain
    /\ baseline.others
    /\ NonDynamic(linted)
    /\ Unstamped(linted)
    /\ InvokesDeterministicChecks
    /\ lintResult.warnings # <<>>
    /\ lintResult.stats.rulesChecked > 1
    /\ lintResult = baseline.result

(***************************************************************************)
(* Claims about the LintResult                                             *)
(***************************************************************************)

\* the number of times a finding is held by a list
Count(list, w) == Cardinality({k \in 1..Len(list) : list[k] = w})

\* the list of the LintResult for a severity
Bucket(result, severity) ==
    CASE severity = "error" -> result.errors
      [] severity = "warning" -> result.warnings
      [] severity = "info" -> result.info
      [] OTHER -> <<>>

\* C17: in every LintResult each aggregated finding is held by exactly one
\* of errors, warnings and info, the one of its severity, as often as it was
\* aggregated; the three lists hold nothing else; passed is true exactly
\* when errors is empty.
C17_BucketsMatchSeverity ==
    lpc = "resolved" =>
        /\ \A k \in 1..Len(allWarnings) :
            /\ allWarnings[k].severity \in {"error", "warning", "info"}
            /\ \A severity \in {"error", "warning", "info"} :
                Count(Bucket(lintResult, severity), allWarnings[k])
                    = IF severity = allWarnings[k].severity
                      THEN Count(allWarnings, allWarnings[k]) ELSE 0
        /\ Len(lintResult.errors) + Len(lintResult.warnings)
                + Len(lintResult.info) = Len(allWarnings)
        /\ lintResult.passed <=> (lintResult.errors = <<>>)

\* a run aggregated findings of the three severities, one of them at a
\* severity its rule did not give it, and did not pass
C17_Witness ==
    /\ lpc = "resolved"
    /\ lintResult.errors # <<>>
    /\ lintResult.warnings # <<>>
    /\ lintResult.info # <<>>
    /\ ~lintResult.passed
    /\ \E c \in 1..Len(checks) :
        /\ checks[c].returned # <<>>
        /\ checks[c].returned[1].severity # checks[c].severity

\* a run without an error finding passed
C17_WitnessPassed ==
    /\ lpc = "resolved"
    /\ lintResult.passed
    /\ lintResult.warnings # <<>>

\* the rule is off by the configuration or ignored by a directive of the
\* rendered text
OffOrIgnored(ruleId) ==
    \/ ConfiguredSeverity(ruleConfig, ruleId) = "off"
    \/ ruleId \in ignoredRules
    \/ "*" \in ignoredRules

\* the findings check c of the run contributed, as they were aggregated
Contributed(c) ==
    IF checks[c].threw THEN <<>>
    ELSE [j \in 1..Len(checks[c].returned) |->
            ApplySeverity(checks[c].returned[j], checks[c].severity)]

RECURSIVE ContributedUpTo(_)
ContributedUpTo(c) ==
    IF c = 0 THEN <<>> ELSE ContributedUpTo(c - 1) \o Contributed(c)

\* the rules of the registry the loop has passed, in order
RulesPassed == [k \in 1..(cursor - 1) |-> rules[k]]

\* C18: a rule whose configured severity is 'off' or whose id is ignored by
\* an inline directive is never invoked by lint, contributes no finding (the
\* findings are those the invoked checks returned, in order) and is not
\* counted; stats.rulesChecked is the number of rules whose check was
\* invoked in the run, a check that threw included.
C18_OffAndIgnoredRulesAreSkipped ==
    lpc \in {"running", "resolved"} =>
        /\ \A c \in 1..Len(checks) : ~OffOrIgnored(checks[c].rule)
        /\ \A k \in 1..Len(RulesPassed) :
            OffOrIgnored(RulesPassed[k].id) =>
                \A c \in 1..Len(checks) : checks[c].check # RulesPassed[k].check
        /\ allWarnings = ContributedUpTo(Len(checks))
        /\ rulesChecked = Len(checks)
        /\ lpc = "resolved" =>
            /\ lintResult.stats.rulesChecked = Len(checks)
            /\ Len(checks) = Cardinality({k \in 1..Len(rules) :
                    /\ rules[k].id \in DOMAIN ruleConfig
                    /\ ~OffOrIgnored(rules[k].id)})

\* a run resolved in which a rule was off by configuration, another was
\* ignored by a directive, a check threw, and some checks were invoked
C18_Witness ==
    /\ lpc = "resolved"
    /\ \E k \in 1..Len(rules) : ConfiguredSeverity(ruleConfig, rules[k].id) = "off"
    /\ \E k \in 1..Len(rules) : rules[k].id \in ignoredRules
    /\ \E c \in 1..Len(checks) : checks[c].threw
    /\ lintResult.stats.rulesChecked = Len(checks)
    /\ Len(checks) > 1
    /\ Len(checks) < Len(rules) - 1

(***************************************************************************)
(* The two token-limit rules applied to a context (part_010 22-69)         *)
(***************************************************************************)

\* bounds of the contexts the rules are applied to
MaxTokens == 12
MaxWindow == 10

\* the threshold options, in percent; <<>> is no (numeric) option
Thresholds == {<<>>, <<0>>, <<50>>, <<80>>, <<100>>, <<120>>}

\* token counts: the small ones and some of four and more digits
TokenCounts == 0..MaxTokens \cup {999, 1000, 170000, 250000}
ContextWindows == 1..MaxWindow \cup {1000, 200000}

TokensInit ==
    /\ RenderQuiet
    /\ ParserQuiet
    /\ MapQuiet
    /\ BuilderQuiet
    /\ rules = <<>>
    /\ ruleConfig = NoRules
    /\ llmConfig = NoLlm
    /\ ops = 0
    /\ lastAdded = NotAdded
    /\ lpc = "idle"
    /\ linted = Compose("agent", "claude-sonnet-4-20250514", <<>>, DefaultOptions)
    /\ \E t \in TokenCounts, w \in ContextWindows, h \in Thresholds :
        lintContext = [NoLintContext EXCEPT !.tokenCount = t,
                                            !.modelConfig.contextWindow = w,
                                            !.options.threshold = h]
    /\ ignoredRules = {}
    /\ cursor = 1
    /\ allWarnings = <<>>
    /\ checks = <<>>
    /\ rulesChecked = 0
    /\ llmCalls = 0
    /\ generateCalls = 0
    /\ lintResult = LintPending
    /\ baseline = NoBaseline

\* the check of the rule was applied to the context
Applied(ruleId) == \E c \in 1..Len(checks) : checks[c].rule = ruleId

TokensFrame ==
    UNCHANGED <<renderVars, parserVars, mapVars, builderVars, linterVars, lpc,
                linted, lintContext, ignoredRules, cursor, allWarnings,
                rulesChecked, llmCalls, generateCalls, lintResult, baseline>>

\* tokenLimitExceeded.check(ctx)
TokenLimitExceededCheck ==
    /\ ~Applied("token-limit-exceeded")
    /\ checks' = Append(checks, [rule |-> "token-limit-exceeded",
                                 returned |-> TokenLimitExceeded(lintContext)])
    /\ TokensFrame

\* tokenLimitWarning.check(ctx)
TokenLimitWarningCheck ==
    /\ ~Applied("token-limit-warning")
    /\ checks' = Append(checks, [rule |-> "token-limit-warning",
                                 returned |-> TokenLimitWarning(lintContext)])
    /\ TokensFrame

TokensNext ==
    \/ TokenLimitExceededCheck
    \/ TokenLimitWarningCheck

SpecTokens == TokensInit /\ [][TokensNext]_vars

\* what the check of the rule returned
ReturnedBy(ruleId) ==
    checks[CHOOSE c \in 1..Len(checks) : checks[c].rule = ruleId].returned

\* the number a message argument is written for: the groups read back
RECURSIVE NumberOf(_)
NumberOf(groups) ==
    IF Len(groups) = 1 THEN groups[1]
    ELSE NumberOf(SubSeq(groups, 1, Len(groups) - 2)) * 1000
            + groups[Len(groups)]

\* the threshold of the context in percent: 80 unless the option is given
ThresholdOf(ctx) ==
    IF ctx.options.threshold = <<>> THEN 80 ELSE ctx.options.threshold[1]

\* C19: for every token count t, context window w and threshold h,
\* token-limit-exceeded returns one error finding written with t and w when
\* t > w and nothing otherwise; token-limit-warning returns one finding
\* exactly when h < t/w <= 1, with h = 0.8 unless a threshold is given; the
\* two rules never both return a finding for one context.
C19_TokenLimitRules ==
    LET t == lintContext.tokenCount
        w == lintContext.modelConfig.contextWindow
        h == ThresholdOf(lintContext)
    IN  /\ Applied("token-limit-exceeded") =>
            LET found == ReturnedBy("token-limit-exceeded")
            IN  IF t > w
                THEN /\ Len(found) = 1
                     /\ found[1].id = "token-limit-exceeded"
                     /\ found[1].severity = "error"
                     /\ NumberOf(found[1].args[1]) = t
                     /\ NumberOf(found[1].args[2]) = w
                ELSE found = <<>>
        /\ Applied("token-limit-warning") =>
            LET found == ReturnedBy("token-limit-warning")
            IN  /\ Len(found) <= 1
                /\ (Len(found) = 1) <=> (h * w < t * 100 /\ t <= w)
                /\ Len(found) = 1 => found[1].id = "token-limit-warning"
        /\ (Applied("token-limit-exceeded") /\ Applied("token-limit-warning"))
            => (ReturnedBy("token-limit-exceeded") = <<>>
                    \/ ReturnedBy("token-limit-warning") = <<>>)

\* 250,000 tokens against a window of 200,000: one error written with both
\* numbers and no warning
C19_Witness ==
    /\ lintContext.tokenCount = 250000
    /\ lintContext.modelConfig.contextWindow = 200000
    /\ Applied("token-limit-exceeded")
    /\ Applied("token-limit-warning")
    /\ Len(ReturnedBy("token-limit-exceeded")) = 1
    /\ ReturnedBy("token-limit-exceeded")[1].args
            = << <<250, ",", 0>>, <<200, ",", 0>> >>
    /\ ReturnedBy("token-limit-warning") = <<>>

\* a prompt over the threshold given as an option and within the window:
\* one warning and no error
C19_WitnessWarning ==
    /\ lintContext.options.threshold = <<50>>
    /\ Applied("token-limit-exceeded")
    /\ Applied("token-limit-warning")
    /\ Len(ReturnedBy("token-limit-warning")) = 1
    /\ ReturnedBy("token-limit-exceeded") = <<>>
    /\ lintContext.tokenCount * 100 <= 80 * lintContext.modelConfig.contextWindow

(***************************************************************************)
(* Claims about the token counts of the metadata                           *)
(***************************************************************************)

\* the token counts of the sections of the leading run of cacheable
\* sections, each section counted once
RECURSIVE LeadingCacheableTokens(_)
LeadingCacheableTokens(sections) ==
    IF sections = <<>> \/ ~Head(sections).cacheable THEN 0
    ELSE CountTokens(Head(sections).content)
            + LeadingCacheableTokens(Tail(sections))

RECURSIVE AllSectionTokens(_)
AllSectionTokens(sections) ==
    IF sections = <<>> THEN 0
    ELSE CountTokens(Head(sections).content) + AllSectionTokens(Tail(sections))

\* C20 as stated: in the metadata of every render cacheableTokens is the sum
\* of the token counts of the sections of the leading run of cacheable
\* sections of the rendered order, each counted once, and so never exceeds
\* the sum of the token counts of all sections.
C20_Original ==
    rpc = "fulfilled" =>
        /\ compiled.meta.cacheableTokens = LeadingCacheableTokens(Ordered)
        /\ compiled.meta.cacheableTokens <= AllSectionTokens(Ordered)

(***************************************************************************)
(* Claims about the order of resolution and the rendered order             *)
(***************************************************************************)
\* the declaration indices (0-based) of the dynamic sections of the prompt
DynamicIndices ==
    {i \in 0..(Len(prompt.sections) - 1) : IsDynamic(prompt.sections[i + 1])}

\* the declaration indices of the generator calls made so far
InvokedIndices == {invoked[k].index : k \in 1..Len(invoked)}

\* C21: render invokes the generators of the dynamic sections one at a
\* time in declaration order: each call is the call of the generator of the
\* section at its declaration index, the calls come in increasing
\* declaration index, no dynamic section declared before an invoked one was
\* passed over, every call but the last has returned, and every section
\* declared before the last invoked one is resolved, in declaration order,
\* whatever the priorities, the cacheability and the cacheOptimize option.
C21_GeneratorsInDeclarationOrder ==
    /\ \A k \in 1..Len(invoked) :
        /\ invoked[k].index \in DynamicIndices
        /\ invoked[k].gen = prompt.sections[invoked[k].index + 1].content.gen
        /\ \A j \in 1..(k - 1) :
            /\ invoked[j].index < invoked[k].index
            /\ invoked[j].ok
        /\ \A i \in DynamicIndices : i < invoked[k].index => i \in InvokedIndices
        /\ rpc # "idle" => Len(resolved) >= invoked[k].index
    /\ \A n \in 1..Len(resolved) :
        /\ resolved[n].source.sectionIndex = n - 1
        /\ resolved[n].type = prompt.sections[n].type
        /\ IsDynamic(prompt.sections[n]) => (n - 1) \in InvokedIndices

\* a render of two dynamic sections, both generators called, in which the
\* section declared second is rendered first
C21_Witness ==
    /\ rpc = "fulfilled"
    /\ Len(invoked) = 2
    /\ invoked[1].index = 0
    /\ invoked[2].index = 1
    /\ prompt.options.cacheOptimize # FALSE
    /\ compiled.ordered[1].source.sectionIndex = 1

(***************************************************************************)
(* The cache-aware orderer applied to resolved section lists               *)
(* (render lines 65-69, optimizeForCaching lines 327-338)                  *)
(***************************************************************************)
MaxOrdered == 3

\* sections of each cacheability at three priorities, one of them shared
OrderPriorities == {0, 20, 50}

OrderPool ==
    {SectionCustom("notes", StringContent(<<"a">>),
                   [priority |-> <<p>>, cacheable |-> <<c>>]) :
        p \in OrderPriorities, c \in BOOLEAN}

OrderPrompts ==
    {Compose("agent", "tiny", ss, [DefaultOptions EXCEPT !.cacheOptimize = o]) :
        ss \in SeqsUpTo(OrderPool, MaxOrdered), o \in BOOLEAN}

\* resolveSections on literal sections without placeholders
ResolvedLiterals(p) ==
    [i \in 1..Len(p.sections) |->
        RenderedSection(p.sections[i], i - 1, p.sections[i].content.text)]

\* the sections of a prompt are resolved; the order is not yet chosen
OrderInit ==
    /\ LinterQuiet
    /\ ParserQuiet
    /\ MapQuiet
    /\ BuilderQuiet
    /\ prompt \in OrderPrompts
    /\ context = EmptyContext
    /\ enriched = EnrichContext(EmptyContext, prompt, 0)
    /\ rpc = "resolving"
    /\ resolved = ResolvedLiterals(prompt)
    /\ invoked = <<>>
    /\ compiled = NotSettled
    /\ previous = NotSettled
    /\ renders = 1
    /\ now = 0

\* render, lines 65-69: orderedSections
OrderCall ==
    /\ rpc = "resolving"
    /\ compiled' = [NotSettled EXCEPT !.ordered = OrderSections(prompt, resolved)]
    /\ rpc' = "ordered"
    /\ UNCHANGED <<prompt, context, enriched, resolved, invoked, previous,
                   renders, now, linterVars, runVars, parserVars, mapVars,
                   builderVars>>

\* optimizeForCaching applied to the list that render ordered
ReorderCall ==
    /\ rpc = "ordered"
    /\ previous' = compiled
    /\ compiled' = [NotSettled EXCEPT
                        !.ordered = OptimizeForCaching(compiled.ordered)]
    /\ rpc' = "reordered"
    /\ UNCHANGED <<prompt, context, enriched, resolved, invoked, renders, now,
                   linterVars, runVars, parserVars, mapVars, builderVars>>

OrderNext ==
    \/ OrderCall
    \/ ReorderCall

SpecOrder == OrderInit /\ [][OrderNext]_vars

\* the list is the declared sections, each once
IsPermutationOfDeclared(list) ==
    /\ Len(list) = Len(resolved)
    /\ \A i \in 1..Len(resolved) :
        Cardinality({k \in 1..Len(list) : list[k].source.sectionIndex = i - 1}) = 1
    /\ \A k \in 1..Len(list) : list[k] = resolved[list[k].source.sectionIndex + 1]

\* a comes before b in a cache-ordered list: cacheable before non-cacheable,
\* then lower priority first, then declared first
Precedes(a, b) ==
    IF a.cacheable # b.cacheable THEN a.cacheable
    ELSE IF a.priority # b.priority THEN a.priority < b.priority
    ELSE a.source.sectionIndex < b.source.sectionIndex

CacheOrdered(list) ==
    \A k, m \in 1..Len(list) : k < m => Precedes(list[k], list[m])

\* C22: with cacheOptimize not false the rendered order is a permutation of
\* the declared sections, all cacheable sections in ascending priority
\* followed by all non-cacheable sections in ascending priority, sections
\* of equal priority in declaration order; with cacheOptimize false it is
\* the declared order.
C22_RenderedOrder ==
    rpc = "ordered" =>
        IF prompt.options.cacheOptimize = FALSE
        THEN compiled.ordered = resolved
        ELSE /\ IsPermutationOfDeclared(compiled.ordered)
             /\ CacheOrdered(compiled.ordered)

\* three sections ordered with cacheOptimize on: a non-cacheable section
\* declared first is rendered last, and two cacheable sections of one
\* priority keep their declaration order
C22_Witness ==
    /\ rpc = "ordered"
    /\ prompt.options.cacheOptimize # FALSE
    /\ Len(resolved) = 3
    /\ ~resolved[1].cacheable
    /\ resolved[2].cacheable
    /\ resolved[3].cacheable
    /\ resolved[2].priority = resolved[3].priority
    /\ compiled.ordered = <<resolved[2], resolved[3], resolved[1]>>

\* a list that is not cache-ordered is left as declared with cacheOptimize
\* false
C22_WitnessDeclared ==
    /\ rpc = "ordered"
    /\ prompt.options.cacheOptimize = FALSE
    /\ ~CacheOrdered(resolved)
    /\ compiled.ordered = resolved

\* the list is cacheable-first and, within each group, in ascending priority
PrioritySorted(list) ==
    \A k, m \in 1..Len(list) :
        k < m =>
            /\ list[k].cacheable \/ ~list[m].cacheable
            /\ list[k].cacheable = list[m].cacheable
                => list[k].priority <= list[m].priority

\* C23: the cache-aware orderer is idempotent: ordering the result of
\* ordering a list gives the same sequence as ordering it once, and
\* ordering a list that is already cacheable-first and priority-sorted
\* returns it unchanged.
C23_OrdererIsIdempotent ==
    /\ rpc = "reordered" =>
        /\ prompt.options.cacheOptimize # FALSE
            => compiled.ordered = previous.ordered
        /\ PrioritySorted(previous.ordered)
            => compiled.ordered = previous.ordered
        /\ PrioritySorted(compiled.ordered)
    /\ (rpc = "ordered" /\ prompt.options.cacheOptimize # FALSE
            /\ PrioritySorted(resolved))
        => compiled.ordered = resolved

\* a list of three sections that the first ordering changed and the second
\* ordering left as it was, two of them of one priority
C23_Witness ==
    /\ rpc = "reordered"
    /\ prompt.options.cacheOptimize # FALSE
    /\ Len(resolved) = 3
    /\ previous.ordered # resolved
    /\ compiled.ordered = previous.ordered
    /\ \E k, m \in 1..3 : k # m /\ resolved[k].priority = resolved[m].priority
                            /\ resolved[k].cacheable = resolved[m].cacheable

(***************************************************************************)
(* Where the formatter wrote each section                                  *)
(***************************************************************************)
\* render, lines 72-86: the format applied to the prompt
FormatOf(p) ==
    IF p.options.formatForModel = FALSE THEN "none"
    ELSE IF p.options.format # Undefined THEN p.options.format
    ELSE PreferredFormat(p.model)

\* the block written for one section
FormatSection(p, section) == FormatSections(p, <<section>>)

\* what is written between two blocks
Separator(p) ==
    IF FormatOf(p) \in {"none", "xml", "markdown"} THEN <<"\n", "\n">>
    ELSE <<"\n", "\n", "---", "\n", "\n">>

\* the text of the section as the formatter writes it
Written(p, section) ==
    IF FormatOf(p) = "none" THEN section.content ELSE Trim(section.content)

\* the offset of the written text inside the block of the section: after
\* the opening tag (and the line break of a multi-line body), or at the
\* end of the block after the header or the label
ContentOffset(p, section) ==
    LET block == FormatSection(p, section)
        open == StrLen(<<"<", GetTagName(section), ">">>)
        close == StrLen(<<"</", GetTagName(section), ">">>)
    IN  IF FormatOf(p) = "xml"
        THEN IF StrLen(block) = open + close + StrLen(Written(p, section))
             THEN open ELSE open + 1
        ELSE StrLen(block) - StrLen(Written(p, section))

\* the offset at which the block of the section at position j of the
\* rendered order starts in the text
BlockStart(j) ==
    IF j = 1 THEN 0
    ELSE StrLen(FormatSections(prompt, SubSeq(Ordered, 1, j - 1)))
            + StrLen(Separator(prompt))

BlockEnd(j) == BlockStart(j) + StrLen(FormatSection(prompt, Ordered[j]))

WrittenStart(j) == BlockStart(j) + ContentOffset(prompt, Ordered[j])

WrittenEnd(j) == WrittenStart(j) + StrLen(Written(prompt, Ordered[j]))

\* the range of mapping n is the text written for the section at position j,
\* or a part of it
CoversOwnText(n, j) ==
    /\ WrittenStart(j) <= Mappings[n].output.start
    /\ Mappings[n].output.end <= WrittenEnd(j)

\* the forward search did not find the section at position k
NotFound(k) == MappingsOf(k) = {}

\* the text of the section at position j occurs in the rendered text
Occurs(j) == IndexOf(compiled.text, Ordered[j].content, 0) # -1

\* C24 as stated, for sections with a text that is not empty: when the
\* forward search does not find the text of a section, the render still
\* succeeds and only the mapping of that section is lost: every other
\* section whose text occurs in the output has a mapping, and the mapping
\* covers the text written for that section.
C24_Original ==
    rpc = "fulfilled" =>
        \A k \in 1..Len(Ordered) :
            NotFound(k) =>
                \A j \in 1..Len(Ordered) :
                    (j # k /\ Occurs(j) /\ Ordered[j].content # <<>>) =>
                        /\ MappingsOf(j) # {}
                        /\ \A n \in MappingsOf(j) : CoversOwnText(n, j)

(***************************************************************************)
(* Claims about the order of the rule checks                               *)
(***************************************************************************)
\* the check is the check of a rule of the built-in list
IsBuiltInCheck(check) ==
    \E b \in 1..Len(heuristicRules) : heuristicRules[b].check = check

\* the place of the built-in check in the built-in list
BuiltInPlace(check) ==
    CHOOSE b \in 1..Len(heuristicRules) : heuristicRules[b].check = check

Ids(list) == [k \in 1..Len(list) |-> list[k].id]

\* the rules that the loop has passed and not skipped, in registry order
InvokedRules ==
    SelectSeq(SubSeq(rules, 1, cursor - 1),
              LAMBDA r : ~IsSkipped(ruleConfig, ignoredRules, r.id))

\* the number of findings the k-th invoked check added to the aggregate
AddedBy(k) == IF checks[k].threw THEN 0 ELSE Len(checks[k].returned)

\* C25 as stated: the checks are invoked one at a time, all built-in rules
\* in their list order and then the custom rules.
C25_Original ==
    lpc \in {"running", "resolved"} =>
        \A i, j \in 1..Len(checks) :
            i < j =>
                /\ IsBuiltInCheck(checks[i].check) \/ ~IsBuiltInCheck(checks[j].check)
                /\ (IsBuiltInCheck(checks[i].check) /\ IsBuiltInCheck(checks[j].check))
                    => BuiltInPlace(checks[i].check) < BuiltInPlace(checks[j].check)

\* the registry holds one rule per id, the ids of the built-in list first
\* and in list order, and a run has invoked, one after the other, the rules
\* it did not skip in registry order and aggregated their findings in that
\* order
ChecksFollowRegistry ==
    /\ \A i, j \in 1..Len(rules) : rules[i].id = rules[j].id => i = j
    /\ Len(rules) >= Len(heuristicRules)
    /\ SubSeq(Ids(rules), 1, Len(heuristicRules)) = Ids(heuristicRules)
    /\ ops = 0 =>
        \E config \in LinterConfigs :
            Ids(rules) = Ids(heuristicRules) \o Ids(config.custom)
    /\ lpc \in {"running", "resolved"} =>
        /\ [k \in 1..Len(checks) |-> checks[k].rule] = Ids(InvokedRules)
        /\ [k \in 1..Len(checks) |-> checks[k].check]
            = [k \in 1..Len(InvokedRules) |-> InvokedRules[k].check]
        /\ rulesChecked = Len(checks)
        /\ \A k \in 1..Len(checks) :
            checks[k].first =
                IF k = 1 THEN 1 ELSE checks[k - 1].first + AddedBy(k - 1)
        /\ Len(allWarnings) =
            IF checks = <<>> THEN 0
            ELSE checks[Len(checks)].first + AddedBy(Len(checks)) - 1

\* a rule registered under a known id takes the place of the rule that had
\* the id, and a rule with a new id goes to the end
RegistryKeepsPlaces ==
    /\ Len(rules') \in {Len(rules), Len(rules) + 1}
    /\ \A k \in 1..Len(rules) : rules'[k].id = rules[k].id

\* C25: lint invokes the checks one at a time in the order of the rule
\* registry: the ids of the built-in rules in list order, then the other
\* ids in the order in which they were first registered; a rule supplied or
\* added under an id that is already registered is invoked at the place of
\* that id.  A check is started when the previous one has settled, and the
\* findings are aggregated in that order.
C25_ChecksInRegistryOrder ==
    []ChecksFollowRegistry /\ [][RegistryKeepsPlaces]_vars

\* a custom rule that took the id of a built-in rule was invoked before a
\* built-in rule, and a custom rule with an id of its own after both
C25_Witness ==
    /\ lpc = "resolved"
    /\ \E i, j, k \in 1..Len(checks) :
        /\ i < j
        /\ j < k
        /\ checks[i].check = "shadowIdentity"
        /\ IsBuiltInCheck(checks[j].check)
        /\ ~IsBuiltInCheck(checks[k].check)

\* C26 as stated, for mappings with a range that is not empty: every
\* mapping that render records for a section covers the text written for
\* that section inside the section's own block, and never lies in the
\* decoration the formatter inserted or in the block of another section.
C26_Original ==
    rpc = "fulfilled" =>
        \A n \in 1..Len(Mappings) :
            Mappings[n].output.start < Mappings[n].output.end =>
                CoversOwnText(n, Mappings[n].source.sectionIndex + 1)

(***************************************************************************)
(* Claims about the origins recorded by render                             *)
(***************************************************************************)
\* the declared section that mapping n was recorded for
DeclaredOf(n) ==
    prompt.sections[Ordered[Mappings[n].source.sectionIndex + 1]
                        .source.sectionIndex + 1]

\* the section holds a fragment definition whose id is the empty string
HoldsUnnamedFragment(section) ==
    section.content.kind = "fragment" /\ section.content.id = ""

Fragments == compiled.meta.fragments

\* the declaration indices (0-based) of the static sections of the prompt
StaticIndices ==
    {i \in 0..(Len(prompt.sections) - 1) : ~IsDynamic(prompt.sections[i + 1])}

\* the declaration index of the section at position k (0-based) of the
\* rendered order
DeclarationIndexAt(k) == Ordered[k + 1].source.sectionIndex

\* C28: the sectionIndex of a provenance mapping is the position of the
\* section in the rendered order (the range of the mapping holds the text
\* of the section at that position), the sectionIndex of a fragment
\* reference of the metadata is the declaration index of the section, and
\* a mapping and a fragment reference with one index denote one section
\* only when the orderer left the section at its declared position.
C28_SectionIndices ==
    rpc = "fulfilled" =>
        /\ \A n \in 1..Len(Mappings) :
            LET k == Mappings[n].source.sectionIndex
            IN  /\ k \in 0..(Len(Ordered) - 1)
                /\ Mappings[n].source.sectionType = Ordered[k + 1].type
                /\ Mappings[n].output.end - Mappings[n].output.start
                    = StrLen(Ordered[k + 1].content)
                /\ IndexOf(compiled.text, Ordered[k + 1].content,
                           Mappings[n].output.start)
                    = Mappings[n].output.start
                /\ \A m \in 1..Len(Mappings) :
                    Mappings[m].source.sectionIndex = k => m = n
        /\ {Fragments[f].sectionIndex : f \in 1..Len(Fragments)} = StaticIndices
        /\ \A f \in 1..Len(Fragments) :
            LET d == Fragments[f].sectionIndex
            IN  /\ Fragments[f].sectionType = prompt.sections[d + 1].type
                /\ Fragments[f].id = GetFragment(prompt.sections[d + 1]).id
                /\ Fragments[f].version = GetFragment(prompt.sections[d + 1]).version
                /\ \A g \in 1..(f - 1) : Fragments[g].sectionIndex < d
        /\ \A n \in 1..Len(Mappings) : \A f \in 1..Len(Fragments) :
            Mappings[n].source.sectionIndex = Fragments[f].sectionIndex =>
                (DeclaredOf(n) = prompt.sections[Fragments[f].sectionIndex + 1]
                    => \/ DeclarationIndexAt(Mappings[n].source.sectionIndex)
                            = Mappings[n].source.sectionIndex
                       \/ \E i, j \in 1..Len(prompt.sections) :
                            i # j /\ prompt.sections[i] = prompt.sections[j])

\* the orderer moved a fragment section declared first behind a literal:
\* its mapping has index 1, its fragment reference index 0, and the mapping
\* with index 0 belongs to the other section
C28_Witness ==
    /\ rpc = "fulfilled"
    /\ Len(Ordered) = 2
    /\ DeclarationIndexAt(0) = 1
    /\ DeclarationIndexAt(1) = 0
    /\ Len(Mappings) = 2
    /\ Len(Fragments) = 2
    /\ Fragments[1].id = "frag-rules"
    /\ Fragments[1].sectionIndex = 0
    /\ \E n \in 1..2 :
        /\ Mappings[n].source.fragmentId = "frag-rules"
        /\ Mappings[n].source.sectionIndex = 1

(***************************************************************************)
(* C29: addRule without a severity                                         *)
(***************************************************************************)
\* the Linters whose registry calls are remembered: the defaults, and a
\* rules config that sets the severity of a custom rule
RegistryConfigs ==
    { config \in LinterConfigs : config.llm = NoLlm }

RegistryInit ==
    /\ RenderQuiet
    /\ ParserQuiet
    /\ MapQuiet
    /\ BuilderQuiet
    /\ \E config \in RegistryConfigs :
        /\ rules = Constructor(config).rules
        /\ ruleConfig = Constructor(config).ruleConfig
        /\ llmConfig = config.llm
    /\ ops = 0
    /\ lastAdded = NotAdded
    /\ NoRun

\* addRule(rule, severity?), remembered with the severity it replaces
AddRuleRemembered ==
    \E call \in AddRuleCalls :
        /\ AddRuleWith(call)
        /\ lastAdded' = [made |-> TRUE, rule |-> call.rule,
                         omitted |-> call.severity = <<>>,
                         replaced |-> ConfiguredSeverity(ruleConfig,
                                                         call.rule.id)]

\* configureRule(ruleId, severity) after which no addRule call is the last
ConfigureRuleAfterwards ==
    \E call \in ConfigureRuleCalls :
        ConfigureRuleWith(call) /\ lastAdded' = NotAdded

\* disableRule(ruleId) after which no addRule call is the last
DisableRuleAfterwards ==
    \E ruleId \in DisableRuleCalls :
        DisableRuleWith(ruleId) /\ lastAdded' = NotAdded

RegistryNext ==
    \/ AddRuleRemembered
    \/ ConfigureRuleAfterwards
    \/ DisableRuleAfterwards
    \/ LintStart
    \/ SkipRule
    \/ CheckRule
    \/ LintFinish

SpecRegistry == RegistryInit /\ [][RegistryNext]_vars

\* the addRule call made last named no severity, and no configureRule or
\* disableRule call has followed it
AddedWithDefault == lastAdded.made /\ lastAdded.omitted

\* the lint call that followed has invoked the check of the rule added last
AddedRuleInvoked ==
    \E k \in 1..Len(checks) :
        /\ checks[k].rule = lastAdded.rule.id
        /\ checks[k].check = lastAdded.rule.check

\* the rendered text of the lint call names the id of the rule added last in
\* an ignore directive, or ignores every rule
AddedRuleIgnored ==
    \/ "*" \in ignoredRules
    \/ lastAdded.rule.id \in ignoredRules

\* C29 as stated: after addRule(rule) without a severity the configured
\* severity of rule.id is rule.defaultSeverity whatever was configured
\* before, and the lint call that follows invokes the rule
C29_Original ==
    AddedWithDefault =>
        /\ ConfiguredSeverity(ruleConfig, lastAdded.rule.id)
               = lastAdded.rule.defaultSeverity
        /\ lpc \in {"resolved", "rejected"} => AddedRuleInvoked

\* C29: after addRule(rule) without a severity the configured severity of
\* rule.id is rule.defaultSeverity, whatever the constructor, configureRule
\* or disableRule had set for the id, so the rule is registered and not
\* 'off'; the lint call that follows invokes it exactly when the rendered
\* text does not ignore it, and invokes nothing when the render is rejected
C29_AddRuleRestoresDefault ==
    AddedWithDefault =>
        /\ ruleConfig[lastAdded.rule.id]
               = Severity(lastAdded.rule.defaultSeverity)
        /\ ConfiguredSeverity(ruleConfig, lastAdded.rule.id) # "off"
        /\ \E k \in 1..Len(rules) : rules[k] = lastAdded.rule
        /\ lpc = "resolved" => (AddedRuleInvoked <=> ~AddedRuleIgnored)
        /\ lpc = "rejected" => checks = <<>>

\* disableRule(id), then addRule of a rule with that id, then a lint call
\* that has invoked the rule
C29_Witness ==
    /\ AddedWithDefault
    /\ lastAdded.replaced = "off"
    /\ lpc = "resolved"
    /\ AddedRuleInvoked

(***************************************************************************)
(* C30: lint of a prompt whose render fails                                *)
(***************************************************************************)
\* the ways prompt.render() of the linted prompt can fail
RenderFailures ==
    { rendered.error :
        rendered \in { r \in UNION { RenderOutcomes(linted, EmptyContext, t) :
                                        t \in ClockReadings(linted) } :
                            r.status = "rejected" } }

\* the texts prompt.render() of the linted prompt can resolve with
RenderedTexts ==
    { rendered.text :
        rendered \in { r \in UNION { RenderOutcomes(linted, EmptyContext, t) :
                                        t \in ClockReadings(linted) } :
                            r.status # "rejected" } }

\* C30: a lint call is rejected exactly by the failure of the render it
\* awaits: the rejection carries the error of the render, there is no
\* LintResult, and no check has been invoked; a lint call that goes on to
\* the rules starts with the text of a render that resolved, and no check
\* that throws makes it reject
C30_LintRejectsWhenRenderFails ==
    /\ lpc = "rejected" =>
        /\ lintResult.status = "rejected"
        /\ lintResult.error \in RenderFailures
        /\ checks = <<>>
        /\ rulesChecked = 0
        /\ allWarnings = <<>>
    /\ lpc = "running" /\ cursor = 1 => lintContext.text \in RenderedTexts
    /\ lpc \in {"running", "resolved"} => lintResult.status # "rejected"
    /\ lpc = "resolved" => lintResult.status = "resolved"

\* the generator of the first section of the prompt has thrown under lint
C30_Witness ==
    /\ lpc = "rejected"
    /\ IsDynamic(linted.sections[1])
    /\ lintResult.error = GeneratorError(linted.sections[1].content.gen)
    /\ checks = <<>>

====
